---- MODULE Spec2Model ----
(***************************************************************************)
(* Model of the cresca indexer: the chain poller (indexer.rs), the event   *)
(* dispatcher and its handlers (indexer.rs), the state store they write    *)
(* (Database) and the query API that reads it (api.rs).                    *)
(*                                                                         *)
(* Strings that the code inspects (hex identifiers, type tags) are         *)
(* sequences of characters or tokens, bytes are numbers 0..255, and a JSON *)
(* value is a record [k, s, n, b] tagged by its kind.                      *)
(***************************************************************************)
EXTENDS Integers, Sequences, FiniteSets, Bags, TLC

VARIABLES
    db,             \* the Database shared by the poller and the API
    opened_ok,      \* history: position keys whose add_open_position returned Ok
    last,           \* history: the last transaction dispatched and its results
    reader,         \* an API client that reads the open set and the history
    chain,          \* an API client chaining next_cursor over the history
    poller,         \* run_indexer / indexer_logic: control state and locals
    ledger,         \* the upstream ledger: its head version
    ingest,         \* history: what the poller fetched and applied
    client          \* an API client of the /private routes: its last request

vars == <<db, opened_ok, last, reader, chain, poller, ledger, ingest, client>>

----------------------------------------------------------------------------
(* Strings, hex and JSON values                                            *)

Min(a, b) == IF a < b THEN a ELSE b

Max(a, b) == IF a > b THEN a ELSE b

HexChars ==
    {"0", "1", "2", "3", "4", "5", "6", "7", "8", "9",
     "a", "b", "c", "d", "e", "f", "A", "B", "C", "D", "E", "F"}

HexVal(c) ==
    CASE c = "0" -> 0 [] c = "1" -> 1 [] c = "2" -> 2 [] c = "3" -> 3
      [] c = "4" -> 4 [] c = "5" -> 5 [] c = "6" -> 6 [] c = "7" -> 7
      [] c = "8" -> 8 [] c = "9" -> 9
      [] c \in {"a", "A"} -> 10 [] c \in {"b", "B"} -> 11
      [] c \in {"c", "C"} -> 12 [] c \in {"d", "D"} -> 13
      [] c \in {"e", "E"} -> 14 [] c \in {"f", "F"} -> 15
      [] OTHER -> 0

\* str::strip_prefix("0x").unwrap_or(s)
strip_prefix_0x(s) ==
    IF Len(s) >= 2 /\ s[1] = "0" /\ s[2] = "x" THEN SubSeq(s, 3, Len(s)) ELSE s

\* hex::decode: an odd length or a character that is no hex digit is an error.
hex_decode(s) ==
    IF Len(s) % 2 = 1 \/ \E i \in 1..Len(s) : s[i] \notin HexChars
    THEN [ok |-> FALSE, val |-> <<>>]
    ELSE [ok |-> TRUE,
          val |-> [i \in 1..(Len(s) \div 2) |->
                      16 * HexVal(s[2 * i - 1]) + HexVal(s[2 * i])]]

HexDigits ==
    <<"0", "1", "2", "3", "4", "5", "6", "7", "8", "9",
      "a", "b", "c", "d", "e", "f">>

\* hex::encode of one byte.
hex_encode_byte(b) == <<HexDigits[(b \div 16) + 1], HexDigits[(b % 16) + 1]>>

\* hex::encode of a byte string.
hex_encode(bytes) ==
    [i \in 1..(2 * Len(bytes)) |->
        hex_encode_byte(bytes[(i + 1) \div 2])[2 - (i % 2)]]

\* format!("0x{:016x}", n) for n below 2^31: sixteen lower-case hex digits,
\* zero-padded on the left.
format_0x_016x(n) ==
    <<"0", "x">> \o
    [i \in 1..16 |-> IF i <= 8 THEN "0"
                     ELSE HexDigits[((n \div (16 ^ (16 - i))) % 16) + 1]]

\* serde_json::Value, as far as the handlers look at it.
JStr(s) == [k |-> "str", s |-> s, n |-> 0, b |-> FALSE]

JNum(n) == [k |-> "num", s |-> <<>>, n |-> n, b |-> FALSE]

JBool(b) == [k |-> "bool", s |-> <<>>, n |-> 0, b |-> b]

JNull == [k |-> "null", s |-> <<>>, n |-> 0, b |-> FALSE]

\* Value::as_str().unwrap_or(dflt)
as_str_or(v, dflt) == IF v.k = "str" THEN v.s ELSE dflt

\* Value::as_bool().unwrap_or(dflt)
as_bool_or(v, dflt) == IF v.k = "bool" THEN v.b ELSE dflt

\* Value::as_u64().unwrap_or(dflt)
as_u64_or(v, dflt) == IF v.k = "num" /\ v.n >= 0 THEN v.n ELSE dflt

\* str::contains on token sequences: pat occurs as a contiguous run of s.
Contains(s, pat) ==
    \E i \in 0..(Len(s) - Len(pat)) : SubSeq(s, i + 1, i + Len(pat)) = pat

\* A 32-byte key from decoded bytes: the first min(len, 32) bytes are copied to
\* the front of a zeroed array.
owner_id_of(bytes) ==
    [i \in 1..32 |-> IF i <= Min(Len(bytes), 32) THEN bytes[i] ELSE 0]

----------------------------------------------------------------------------
(* The state store (Database).  Its source file is not part of the source  *)
(* tree at hand; the operations follow the store contract.                 *)

EmptyDb ==
    [open_index |-> EmptyBag,      \* bag of [owner, id, position]
     historical_log |-> <<>>,      \* insertion-ordered [owner, id, entry]
     unspent_notes |-> EmptyBag,   \* bag of UnspentNote
     user_metadata |-> {},         \* set of [owner, blob]
     io_error |-> FALSE]           \* the storage under the store fails

Ok(d) == [ok |-> TRUE, db |-> d]

Err(d) == [ok |-> FALSE, db |-> d]

\* The byte identifier of a Position, as move_to_historical and the API address it.
position_key(position_id) == hex_decode(strip_prefix_0x(position_id))

OpenRecords(d) == BagToSet(d.open_index)

OpenIds(d) == {r.id : r \in OpenRecords(d)}

HistoricalIds(d) == {d.historical_log[i].id : i \in 1..Len(d.historical_log)}

add_open_position_unguarded(d, owner, position) ==
    LET key == position_key(position.position_id) IN
    IF ~key.ok THEN Err(d)
    ELSE Ok([d EXCEPT !.open_index =
                @ (+) SetToBag({[owner |-> owner, id |-> key.val,
                                 position |-> position]})])

add_open_position_open_only_guard(d, owner, position) ==
    LET key == position_key(position.position_id) IN
    IF ~key.ok \/ key.val \in OpenIds(d) THEN Err(d)
    ELSE Ok([d EXCEPT !.open_index =
                @ (+) SetToBag({[owner |-> owner, id |-> key.val,
                                 position |-> position]})])

\* add_open_position(owner, position): fails if the id is already open or
\* historical, under any owner.
add_open_position(d, owner, position) ==
    LET key == position_key(position.position_id) IN
    IF d.io_error \/ ~key.ok \/ key.val \in OpenIds(d)
       \/ key.val \in HistoricalIds(d)
    THEN Err(d)
    ELSE Ok([d EXCEPT !.open_index =
                @ (+) SetToBag({[owner |-> owner, id |-> key.val,
                                 position |-> position]})])

move_to_historical_keeps_open(d, id, status, pnl, closer) ==
    IF id \notin OpenIds(d) THEN Err(d)
    ELSE LET r == CHOOSE x \in OpenRecords(d) : x.id = id IN
         Ok([d EXCEPT !.historical_log =
                 Append(@, [owner |-> r.owner, id |-> id,
                            entry |-> [position |-> r.position,
                                       status |-> status, pnl |-> pnl,
                                       closer |-> closer]])])

move_to_historical_prepends(d, id, status, pnl, closer) ==
    IF id \notin OpenIds(d) THEN Err(d)
    ELSE LET r == CHOOSE x \in OpenRecords(d) : x.id = id IN
         Ok([d EXCEPT !.open_index = @ (-) SetToBag({r}),
                      !.historical_log =
                 <<[owner |-> r.owner, id |-> id,
                    entry |-> [position |-> r.position,
                               status |-> status, pnl |-> pnl,
                               closer |-> closer]]>> \o @])

\* move_to_historical(id, status, pnl, closer): one atomic step that removes
\* the position from the open index and appends it to its owner's log;
\* NotFound when the id is not open.
move_to_historical(d, id, status, pnl, closer) ==
    IF d.io_error \/ id \notin OpenIds(d) THEN Err(d)
    ELSE LET r == CHOOSE x \in OpenRecords(d) : x.id = id IN
         Ok([d EXCEPT !.open_index = @ (-) SetToBag({r}),
                      !.historical_log =
                 Append(@, [owner |-> r.owner, id |-> id,
                            entry |-> [position |-> r.position,
                                       status |-> status, pnl |-> pnl,
                                       closer |-> closer]])])

\* get_position(id): the position held under the id with its status, open or
\* settled, as the set of the records found.
get_position(d, id) ==
    {[position |-> r.position, status |-> "Open"] :
        r \in {o \in OpenRecords(d) : o.id = id}}
    \cup {[position |-> d.historical_log[i].entry.position,
            status |-> d.historical_log[i].entry.status] :
             i \in {j \in 1..Len(d.historical_log) :
                       d.historical_log[j].id = id}}

\* get_open_positions(owner): the owner's open positions.
get_open_positions(d, owner) ==
    {r.position : r \in {x \in OpenRecords(d) : x.owner = owner}}

\* The owner's insertion-ordered log.
OwnerLog(d, owner) ==
    LET mine == SelectSeq(d.historical_log, LAMBDA e : e.owner = owner) IN
    [i \in 1..Len(mine) |-> mine[i].entry]

\* get_historical_positions(owner, cursor, page_size): the page at offset
\* cursor (0 when unset); next_cursor is absent when fewer than page_size
\* items are returned.
None == [some |-> FALSE, v |-> 0]

Some(x) == [some |-> TRUE, v |-> x]

\* None of an Option whose value is a byte string or a string.
NoBytes == [some |-> FALSE, v |-> <<>>]

unwrap_or(opt, dflt) == IF opt.some THEN opt.v ELSE dflt

get_historical_positions(d, owner, cursor, page_size) ==
    LET log == OwnerLog(d, owner)
        start == unwrap_or(cursor, 0)
        items == SubSeq(log, start + 1, Min(start + page_size, Len(log)))
    IN [items |-> items,
        next_cursor |-> IF Len(items) < page_size THEN None
                        ELSE Some(start + page_size)]

\* The records of the unspent set.
UnspentRecords(d) == BagToSet(d.unspent_notes)

UnspentIds(d) == {r.id : r \in UnspentRecords(d)}

\* add_unspent_note(note): the note is stored under its id and under its
\* receiver hash, both as bytes; a note already stored under the id is
\* replaced.
add_unspent_note(d, unspent_note) ==
    LET id == hex_decode(strip_prefix_0x(unspent_note.note_id))
        receiver == hex_decode(strip_prefix_0x(unspent_note.note.receiver_hash))
    IN IF d.io_error \/ ~id.ok \/ ~receiver.ok THEN Err(d)
       ELSE Ok([d EXCEPT !.unspent_notes =
                   SetToBag({r \in UnspentRecords(d) : r.id # id.val}
                            \cup {[id |-> id.val, receiver |-> receiver.val,
                                   note |-> unspent_note]})])

remove_unspent_note_absent_is_error(d, id) ==
    IF id \notin UnspentIds(d) THEN Err(d)
    ELSE Ok([d EXCEPT !.unspent_notes =
                SetToBag({r \in UnspentRecords(d) : r.id # id})])

\* remove_unspent_note(id): removes the note of the id; an absent id is no
\* error.
remove_unspent_note(d, id) ==
    IF d.io_error THEN Err(d)
    ELSE Ok([d EXCEPT !.unspent_notes =
                SetToBag({r \in UnspentRecords(d) : r.id # id})])

\* get_unspent_notes(receiver_hash): the notes stored under the receiver hash.
get_unspent_notes(d, receiver_hash) ==
    {r.note : r \in {x \in UnspentRecords(d) : x.receiver = receiver_hash}}

----------------------------------------------------------------------------
(* The event dispatcher and its handlers (indexer.rs)                      *)

S_empty == <<>>

S_0 == <<"0">>

S_unknown == <<"u", "n", "k", "n", "o", "w", "n">>

S_Liquidated == <<"L", "i", "q", "u", "i", "d", "a", "t", "e", "d">>

handle_position_opened(d, event_data) ==
    LET position_id == as_str_or(event_data.position_id, S_empty)
        owner_hash == as_str_or(event_data.owner_hash, S_0)
        position == [position_id |-> position_id,
                     is_long |-> as_bool_or(event_data.is_long, FALSE),
                     entry_price |-> as_str_or(event_data.entry_price, S_0),
                     margin |-> as_str_or(event_data.margin, S_0),
                     size |-> as_str_or(event_data.size, S_0)]
        owner_key_bytes == hex_decode(strip_prefix_0x(owner_hash))
    IN IF ~owner_key_bytes.ok THEN Err(d)
       ELSE add_open_position(d, owner_id_of(owner_key_bytes.val), position)

handle_position_closed(d, event_data) ==
    LET position_id == as_str_or(event_data.position_id, S_empty)
        pnl == as_str_or(event_data.pnl, S_0)
        user == as_str_or(event_data.user, S_unknown)
        position_id_bytes == hex_decode(strip_prefix_0x(position_id))
    IN IF ~position_id_bytes.ok THEN Err(d)
       ELSE move_to_historical(d, position_id_bytes.val, "Closed", pnl, user)

\* The liquidation handler taking the pnl from the event as the close handler
\* does.
handle_position_liquidated_event_pnl(d, event_data) ==
    LET position_id == as_str_or(event_data.position_id, S_empty)
        pnl == as_str_or(event_data.pnl, S_0)
        user == as_str_or(event_data.user, S_unknown)
        position_id_bytes == hex_decode(strip_prefix_0x(position_id))
    IN IF ~position_id_bytes.ok THEN Err(d)
       ELSE move_to_historical(d, position_id_bytes.val, "Liquidated", pnl, user)

handle_position_liquidated(d, event_data) ==
    LET position_id == as_str_or(event_data.position_id, S_empty)
        user == as_str_or(event_data.user, S_unknown)
        position_id_bytes == hex_decode(strip_prefix_0x(position_id))
    IN IF ~position_id_bytes.ok THEN Err(d)
       ELSE move_to_historical(d, position_id_bytes.val, "Liquidated",
                               S_Liquidated, user)

handle_note_created(d, event_data) ==
    LET note_nonce == as_u64_or(event_data.note_nonce, 0)
        receiver_hash == as_str_or(event_data.receiver_hash, S_empty)
        amount == as_str_or(event_data.amount, S_0)
        note_id == format_0x_016x(note_nonce)
        unspent_note == [note_id |-> note_id,
                         note |-> [note_nonce |-> note_nonce,
                                   receiver_hash |-> receiver_hash,
                                   value |-> amount]]
    IN add_unspent_note(d, unspent_note)

handle_note_claimed_keeps_prefix(d, event_data) ==
    LET note_id == as_str_or(event_data.note_id, S_empty)
        note_id_bytes == hex_decode(note_id)
    IN IF ~note_id_bytes.ok THEN Err(d)
       ELSE remove_unspent_note(d, note_id_bytes.val)

handle_note_claimed(d, event_data) ==
    LET note_id == as_str_or(event_data.note_id, S_empty)
        note_id_bytes == hex_decode(strip_prefix_0x(note_id))
    IN IF ~note_id_bytes.ok THEN Err(d)
       ELSE remove_unspent_note(d, note_id_bytes.val)

T_NoteCreated == <<"token_pool", "::", "NoteCreated">>

T_NoteClaimed == <<"token_pool", "::", "NoteClaimed">>

T_PositionOpened == <<"privacy_proxy", "::", "PositionOpened">>

T_PositionClosed == <<"clearing_house", "::", "PositionClosed">>

T_PositionLiquidated == <<"clearing_house", "::", "PositionLiquidated">>

\* process_event: the first arm whose tag the type contains handles the event;
\* any other type is Ok with no effect.
process_event(d, event) ==
    LET event_type == as_str_or(event.type, S_empty) IN
    IF Contains(event_type, T_NoteCreated)
    THEN handle_note_created(d, event.data)
    ELSE IF Contains(event_type, T_NoteClaimed)
    THEN handle_note_claimed(d, event.data)
    ELSE IF Contains(event_type, T_PositionOpened)
    THEN handle_position_opened(d, event.data)
    ELSE IF Contains(event_type, T_PositionClosed)
    THEN handle_position_closed(d, event.data)
    ELSE IF Contains(event_type, T_PositionLiquidated)
    THEN handle_position_liquidated(d, event.data)
    ELSE Ok(d)

\* The events loop of process_transaction: a handler's error is logged and the
\* loop goes on.  results[i] is whether the i-th event's handler returned Ok.
RECURSIVE process_events(_, _, _)
process_events_stop_at_error(d, events, results) ==
    IF events = <<>> THEN [db |-> d, results |-> results]
    ELSE LET r == process_event(d, Head(events)) IN
         IF r.ok THEN process_events(r.db, Tail(events), Append(results, TRUE))
         ELSE [db |-> r.db, results |-> Append(results, FALSE)]

process_events(d, events, results) ==
    IF events = <<>> THEN [db |-> d, results |-> results]
    ELSE LET r == process_event(d, Head(events)) IN
         process_events(r.db, Tail(events), Append(results, r.ok))

S_user_transaction == <<"user_transaction">>

NOX_MODULE_ADDRESS == <<"0x0000000000000000000000000000000000000000000000000000000000000002">>

starts_with(s, pat) == Len(s) >= Len(pat) /\ SubSeq(s, 1, Len(pat)) = pat

\* process_transaction: only a user transaction whose payload function starts
\* with NOX_MODULE_ADDRESS has its events dispatched.
process_transaction(d, transaction) ==
    IF as_str_or(transaction.type, S_empty) # S_user_transaction
    THEN [db |-> d, results |-> <<>>]
    ELSE IF transaction.function.k # "str"
            \/ ~starts_with(transaction.function.s, NOX_MODULE_ADDRESS)
    THEN [db |-> d, results |-> <<>>]
    ELSE IF transaction.events.k # "array"
    THEN [db |-> d, results |-> <<>>]
    ELSE process_events(d, transaction.events.items, <<>>)

----------------------------------------------------------------------------
(* The query API (api.rs)                                                  *)

BAD_REQUEST == 400

STATUS_OK == 200

DEFAULT_PAGE_SIZE == 20

EmptyPage == [items |-> <<>>, next_cursor |-> None]

\* What a by-address handler answers after its store call returned.
Response(status, open_positions, page) ==
    [status |-> status, open_positions |-> open_positions, page |-> page,
     store_access |-> TRUE]

\* The answer of a handler that leaves through map_err(|_| BAD_REQUEST)? or
\* return Err(BAD_REQUEST), before any call on the store.
DecodeError ==
    [status |-> BAD_REQUEST, open_positions |-> {}, page |-> EmptyPage,
     store_access |-> FALSE]

address_owner_id_truncates(address_str) ==
    LET address_bytes == hex_decode(strip_prefix_0x(address_str)) IN
    IF ~address_bytes.ok THEN [ok |-> FALSE, val |-> <<>>]
    ELSE [ok |-> TRUE, val |-> owner_id_of(address_bytes.val)]

address_owner_id_left_pad(address_str) ==
    LET address_bytes == hex_decode(strip_prefix_0x(address_str)) IN
    IF ~address_bytes.ok \/ Len(address_bytes.val) > 32
    THEN [ok |-> FALSE, val |-> <<>>]
    ELSE [ok |-> TRUE,
          val |-> [i \in 1..32 |-> IF i > 32 - Len(address_bytes.val)
                                   THEN address_bytes.val[i - (32 - Len(address_bytes.val))]
                                   ELSE 0]]

\* The address of the by-address routes as a store key: hex-decoded and, when
\* at most 32 bytes long, copied to the front of a zeroed 32-byte array.
address_owner_id(address_str) ==
    LET address_bytes == hex_decode(strip_prefix_0x(address_str)) IN
    IF ~address_bytes.ok \/ Len(address_bytes.val) > 32
    THEN [ok |-> FALSE, val |-> <<>>]
    ELSE [ok |-> TRUE,
          val |-> [i \in 1..32 |-> IF i <= Len(address_bytes.val)
                                   THEN address_bytes.val[i] ELSE 0]]

NOT_FOUND == 404

PositionResponse(status, position) ==
    [status |-> status, position |-> position, store_access |-> TRUE]

PositionDecodeError ==
    [status |-> BAD_REQUEST, position |-> {}, store_access |-> FALSE]

\* GET /positions/{position_id}; position is the set of the records answered
\* (one or none).
get_position_by_id(d, position_id_str) ==
    LET position_id_bytes == hex_decode(strip_prefix_0x(position_id_str)) IN
    IF ~position_id_bytes.ok THEN PositionDecodeError
    ELSE LET position_data == get_position(d, position_id_bytes.val) IN
         IF position_data # {} THEN PositionResponse(STATUS_OK, position_data)
         ELSE PositionResponse(NOT_FOUND, {})

\* GET /positions/open/{address}
get_open_positions_for_address(d, address_str) ==
    LET owner_id == address_owner_id(address_str) IN
    IF ~owner_id.ok THEN DecodeError
    ELSE Response(STATUS_OK, get_open_positions(d, owner_id.val), EmptyPage)

get_historical_positions_for_address_no_cursor(d, address_str, pagination) ==
    LET owner_id == address_owner_id(address_str) IN
    IF ~owner_id.ok THEN DecodeError
    ELSE Response(STATUS_OK, {},
                  get_historical_positions(d, owner_id.val, None,
                      unwrap_or(pagination.page_size, DEFAULT_PAGE_SIZE)))

get_historical_positions_for_address_fixed_size(d, address_str, pagination) ==
    LET owner_id == address_owner_id(address_str) IN
    IF ~owner_id.ok THEN DecodeError
    ELSE Response(STATUS_OK, {},
                  get_historical_positions(d, owner_id.val, pagination.cursor,
                                           DEFAULT_PAGE_SIZE))

\* GET /positions/history/{address}?cursor&page_size
get_historical_positions_for_address(d, address_str, pagination) ==
    LET owner_id == address_owner_id(address_str) IN
    IF ~owner_id.ok THEN DecodeError
    ELSE Response(STATUS_OK, {},
                  get_historical_positions(d, owner_id.val, pagination.cursor,
                      unwrap_or(pagination.page_size, DEFAULT_PAGE_SIZE)))

\* The request headers the handlers read, each absent (None) or a string; a
\* value that HeaderValue::to_str rejects counts as absent.
Headers(x_signature, x_message, x_receiver_hash) ==
    [x_signature |-> x_signature, x_message |-> x_message,
     x_receiver_hash |-> x_receiver_hash]

NotesResponse(status, unspent_notes) ==
    [status |-> status, unspent_notes |-> unspent_notes, store_access |-> TRUE]

NotesDecodeError ==
    [status |-> BAD_REQUEST, unspent_notes |-> {}, store_access |-> FALSE]

\* GET /private/notes/unspent
get_unspent_notes_handler(d, headers) ==
    IF ~headers.x_receiver_hash.some THEN NotesDecodeError
    ELSE LET receiver_hash ==
                 hex_decode(strip_prefix_0x(headers.x_receiver_hash.v))
         IN IF ~receiver_hash.ok THEN NotesDecodeError
            ELSE NotesResponse(STATUS_OK,
                               get_unspent_notes(d, receiver_hash.val))

UNAUTHORIZED == 401

PAYLOAD_TOO_LARGE == 413

MAX_METADATA_SIZE == 4096

AuthErr == [ok |-> FALSE, status |-> UNAUTHORIZED, pub_key |-> <<>>]

check_auth_message_only(headers) ==
    IF ~headers.x_message.some THEN AuthErr
    ELSE LET pub_key_bytes == headers.x_message.v IN
         [ok |-> TRUE, status |-> STATUS_OK,
          pub_key |-> [i \in 1..32 |-> IF i <= Len(pub_key_bytes)
                                       THEN pub_key_bytes[i] ELSE 0]]

\* check_auth with the key made of the last 32 bytes of a long message.
check_auth_last_32(headers) ==
    IF ~headers.x_signature.some THEN AuthErr
    ELSE IF ~headers.x_message.some THEN AuthErr
    ELSE LET pub_key_bytes == headers.x_message.v IN
         [ok |-> TRUE, status |-> STATUS_OK,
          pub_key |-> IF Len(pub_key_bytes) >= 32
                      THEN SubSeq(pub_key_bytes, Len(pub_key_bytes) - 31,
                                  Len(pub_key_bytes))
                      ELSE [i \in 1..32 |-> IF i <= Len(pub_key_bytes)
                                            THEN pub_key_bytes[i] ELSE 0]]

\* check_auth: both headers must be there; the key is made of the bytes of
\* x-message, the first 32 of them or all of them followed by zeros.  The
\* value of x-signature is not looked at.
check_auth(headers) ==
    IF ~headers.x_signature.some THEN AuthErr
    ELSE IF ~headers.x_message.some THEN AuthErr
    ELSE LET pub_key_bytes == headers.x_message.v IN
         [ok |-> TRUE, status |-> STATUS_OK,
          pub_key |-> IF Len(pub_key_bytes) >= 32
                      THEN SubSeq(pub_key_bytes, 1, 32)
                      ELSE [i \in 1..32 |-> IF i <= Len(pub_key_bytes)
                                            THEN pub_key_bytes[i] ELSE 0]]

\* An insert that drops the values of the other keys.
user_metadata_insert_only(d, key, value) ==
    [d EXCEPT !.user_metadata = {[owner |-> key, blob |-> value]}]

\* db.user_metadata.insert(key, value): the value replaces the key's value.
user_metadata_insert(d, key, value) ==
    [d EXCEPT !.user_metadata =
        {r \in @ : r.owner # key} \cup {[owner |-> key, blob |-> value]}]

\* db.user_metadata.get(key)
user_metadata_get(d, key) ==
    IF \E r \in d.user_metadata : r.owner = key
    THEN Some((CHOOSE r \in d.user_metadata : r.owner = key).blob)
    ELSE NoBytes

\* What a /private handler answers and does: the status, the key the request
\* was served under, the body, whether the store was called, and the store
\* after the request.
PrivateResponse(status, owner, open_positions, page, metadata, access, d) ==
    [status |-> status, owner |-> owner, open_positions |-> open_positions,
     page |-> page, encrypted_metadata |-> metadata,
     store_access |-> access, db |-> d]

Rejected(status, d) ==
    PrivateResponse(status, NoBytes, {}, EmptyPage, NoBytes, FALSE, d)

\* GET /private/positions/open
get_private_open_positions(d, headers) ==
    LET owner_pub_key == check_auth(headers) IN
    IF ~owner_pub_key.ok THEN Rejected(owner_pub_key.status, d)
    ELSE PrivateResponse(STATUS_OK, Some(owner_pub_key.pub_key),
                         get_open_positions(d, owner_pub_key.pub_key),
                         EmptyPage, NoBytes, TRUE, d)

\* GET /private/positions/history?cursor&page_size
get_private_historical_positions(d, headers, pagination) ==
    LET owner_pub_key == check_auth(headers) IN
    IF ~owner_pub_key.ok THEN Rejected(owner_pub_key.status, d)
    ELSE PrivateResponse(STATUS_OK, Some(owner_pub_key.pub_key), {},
                         get_historical_positions(d, owner_pub_key.pub_key,
                             pagination.cursor,
                             unwrap_or(pagination.page_size, DEFAULT_PAGE_SIZE)),
                         NoBytes, TRUE, d)

set_metadata_keeps_first(d, headers, body) ==
    IF Len(body) > MAX_METADATA_SIZE THEN Rejected(PAYLOAD_TOO_LARGE, d)
    ELSE LET owner_pub_key == check_auth(headers) IN
         IF ~owner_pub_key.ok THEN Rejected(owner_pub_key.status, d)
         ELSE PrivateResponse(STATUS_OK, Some(owner_pub_key.pub_key), {},
                  EmptyPage, NoBytes, TRUE,
                  IF user_metadata_get(d, owner_pub_key.pub_key).some THEN d
                  ELSE user_metadata_insert(d, owner_pub_key.pub_key, body))

set_metadata_limit_off_by_one(d, headers, body) ==
    IF Len(body) >= MAX_METADATA_SIZE THEN Rejected(PAYLOAD_TOO_LARGE, d)
    ELSE LET owner_pub_key == check_auth(headers) IN
         IF ~owner_pub_key.ok THEN Rejected(owner_pub_key.status, d)
         ELSE PrivateResponse(STATUS_OK, Some(owner_pub_key.pub_key), {},
                  EmptyPage, NoBytes, TRUE,
                  user_metadata_insert(d, owner_pub_key.pub_key, body))

\* POST /private/metadata
set_metadata(d, headers, body) ==
    IF Len(body) > MAX_METADATA_SIZE THEN Rejected(PAYLOAD_TOO_LARGE, d)
    ELSE LET owner_pub_key == check_auth(headers) IN
         IF ~owner_pub_key.ok THEN Rejected(owner_pub_key.status, d)
         ELSE PrivateResponse(STATUS_OK, Some(owner_pub_key.pub_key), {},
                  EmptyPage, NoBytes, TRUE,
                  user_metadata_insert(d, owner_pub_key.pub_key, body))

\* A read that stores an empty value for a key that has none.
get_metadata_creates_entry(d, headers) ==
    LET owner_pub_key == check_auth(headers) IN
    IF ~owner_pub_key.ok THEN Rejected(owner_pub_key.status, d)
    ELSE LET metadata == user_metadata_get(d, owner_pub_key.pub_key) IN
         PrivateResponse(STATUS_OK, Some(owner_pub_key.pub_key), {}, EmptyPage,
                         IF metadata.some THEN Some(hex_encode(metadata.v))
                         ELSE NoBytes,
                         TRUE,
                         IF metadata.some THEN d
                         ELSE user_metadata_insert(d, owner_pub_key.pub_key, <<>>))

\* GET /health
health == [status |-> STATUS_OK, store_access |-> FALSE, empty |-> FALSE]

\* GET /private/metadata
get_metadata(d, headers) ==
    LET owner_pub_key == check_auth(headers) IN
    IF ~owner_pub_key.ok THEN Rejected(owner_pub_key.status, d)
    ELSE LET metadata == user_metadata_get(d, owner_pub_key.pub_key) IN
         PrivateResponse(STATUS_OK, Some(owner_pub_key.pub_key), {}, EmptyPage,
                         IF metadata.some THEN Some(hex_encode(metadata.v))
                         ELSE NoBytes,
                         TRUE, d)

----------------------------------------------------------------------------
(* Inputs                                                                  *)

P1 == <<"0", "x", "0", "1">>

P2 == <<"0", "x", "0", "2">>

P1_bare == <<"0", "1">>

P_bad == <<"0", "x", "z", "z">>

OwnerA == <<"0", "x", "1", "1">>

OwnerB == <<"0", "x", "2", "2">>

S_100 == <<"1", "0", "0">>

S_10 == <<"1", "0">>

S_5 == <<"5">>

S_50 == <<"5", "0">>

Event(type, data) == [type |-> JStr(type), data |-> data]

NoField ==
    [position_id |-> JNull, owner_hash |-> JNull, is_long |-> JNull,
     entry_price |-> JNull, margin |-> JNull, size |-> JNull,
     pnl |-> JNull, user |-> JNull, note_nonce |-> JNull,
     receiver_hash |-> JNull, amount |-> JNull, note_id |-> JNull]

PositionOpened(position_id, owner_hash, is_long) ==
    Event(<<"0x2", "::">> \o T_PositionOpened,
          [NoField EXCEPT !.position_id = JStr(position_id),
                          !.owner_hash = JStr(owner_hash),
                          !.is_long = JBool(is_long),
                          !.entry_price = JStr(S_100),
                          !.margin = JStr(S_10),
                          !.size = JStr(S_5)])

PositionClosed(position_id, pnl, user) ==
    Event(<<"0x2", "::">> \o T_PositionClosed,
          [NoField EXCEPT !.position_id = JStr(position_id),
                          !.pnl = JStr(pnl), !.user = JStr(user)])

PositionLiquidated(position_id, user) ==
    Event(<<"0x2", "::">> \o T_PositionLiquidated,
          [NoField EXCEPT !.position_id = JStr(position_id),
                          !.user = JStr(user)])

NoteCreated(note_nonce, receiver_hash, amount) ==
    Event(<<"0x2", "::">> \o T_NoteCreated,
          [NoField EXCEPT !.note_nonce = JNum(note_nonce),
                          !.receiver_hash = JStr(receiver_hash),
                          !.amount = JStr(amount)])

NoteClaimed(note_id) ==
    Event(<<"0x2", "::">> \o T_NoteClaimed,
          [NoField EXCEPT !.note_id = JStr(note_id)])

OpenedEvents ==
    {PositionOpened(P1, OwnerA, TRUE), PositionOpened(P1, OwnerB, FALSE),
     PositionOpened(P2, OwnerA, FALSE), PositionOpened(P2, OwnerB, TRUE)}

ClosedEvents ==
    {PositionClosed(P1, S_50, OwnerA), PositionClosed(P1_bare, S_10, OwnerB),
     PositionClosed(P2, S_50, OwnerA), PositionClosed(P_bad, S_50, OwnerA)}

LiquidatedEvents ==
    {PositionLiquidated(P1, OwnerB), PositionLiquidated(P2, OwnerB)}

Events == OpenedEvents \cup ClosedEvents \cup LiquidatedEvents

NoxFunction == NOX_MODULE_ADDRESS \o <<"::", "clearing_house", "::", "close">>

OtherFunction == <<"0x1", "::", "coin", "::", "transfer">>

JArray(items) == [k |-> "array", items |-> items]

Transaction(type, function, events) ==
    [type |-> JStr(type), function |-> JStr(function), events |-> JArray(events)]

UserTx(events) == Transaction(S_user_transaction, NoxFunction, events)

\* Transactions the poller hands to process_transaction: one event each, the
\* same event twice, a failing event followed by another, and two that the
\* filter drops.
Transactions ==
    {UserTx(<<e>>) : e \in Events}
    \cup {UserTx(<<PositionOpened(P1, OwnerA, TRUE),
                   PositionOpened(P1, OwnerA, TRUE)>>),
          UserTx(<<PositionClosed(P2, S_50, OwnerA),
                   PositionClosed(P2, S_50, OwnerA),
                   PositionOpened(P1, OwnerB, FALSE)>>),
          Transaction(<<"block_metadata_transaction">>, NoxFunction,
                      <<PositionOpened(P1, OwnerA, TRUE)>>),
          Transaction(S_user_transaction, OtherFunction,
                      <<PositionOpened(P2, OwnerA, FALSE)>>)}

Addresses == {OwnerA, OwnerB}

Nonces == {0, 7, 255}

R_dead == <<"0", "x", "d", "e", "a", "d">>

R_DEAD_bare == <<"D", "E", "A", "D">>

R_beef == <<"0", "x", "b", "e", "e", "f">>

ReceiverHashes == {R_dead, R_DEAD_bare, R_beef}

S_300 == <<"3", "0", "0">>

\* A nonce no NoteCreated event carries.
UnknownNonce == 9

\* Transactions with note events: a note created, a note claimed by its
\* derived id, a claim of an id never created, a claim whose id is no hex, and
\* a note created and claimed twice in one transaction.
NoteTransactions ==
    {UserTx(<<NoteCreated(n, h, S_300)>>) : n \in Nonces, h \in ReceiverHashes}
    \cup {UserTx(<<NoteClaimed(format_0x_016x(n))>>) :
             n \in Nonces \cup {UnknownNonce}}
    \cup {UserTx(<<NoteClaimed(P_bad)>>),
          UserTx(<<NoteCreated(7, R_dead, S_300),
                   NoteClaimed(format_0x_016x(7)),
                   NoteClaimed(format_0x_016x(7))>>)}

----------------------------------------------------------------------------
(* The store written by the dispatcher and read by an API client           *)

NoTransaction == Transaction(S_empty, S_empty, <<>>)

NoLast == [tx |-> NoTransaction, results |-> <<>>]

TargetIds == {<<1>>}

ReaderIdle ==
    [pc |-> "idle", address |-> OwnerA, target |-> <<1>>, saw_open |-> FALSE,
     saw_hist |-> FALSE, existed |-> FALSE, log_len |-> 0, moved |-> FALSE]

ChainIdle ==
    [pc |-> "idle", address |-> OwnerA, page_size |-> None, cursor |-> None,
     collected |-> <<>>, requests |-> 0, expected |-> <<>>]

\* The environment of the process: NOX_MODULE_ADDRESS unset, or set to the
\* address the modules were published at.
EnvUnset == [NOX_MODULE_ADDRESS |-> NoBytes]

DeployedAddress == <<"0x00000000000000000000000000000000000000000000000000000000000000ab">>

EnvDeployed == [NOX_MODULE_ADDRESS |-> [some |-> TRUE, v |-> DeployedAddress]]

\* Config::from_env: the module address is the variable's value, and the
\* default when the variable is unset.
Config_from_env(env) ==
    [nox_module_address |->
        IF env.NOX_MODULE_ADDRESS.some THEN env.NOX_MODULE_ADDRESS.v
        ELSE <<"0x0000000000000000000000000000000000000000000000000000000000000002">>]

\* run_indexer before it is spawned, holding the configuration main has loaded.
PollerIdle ==
    [pc |-> "off", has_cursor |-> FALSE, from_version |-> 0,
     latest_version |-> 0, to_version |-> 0, restarts |-> 0,
     call |-> "none", answer |-> "none",
     config |-> Config_from_env(EnvUnset)]

LedgerIdle == [version |-> 0, grown |-> 0]

ClientIdle ==
    [pc |-> "idle", endpoint |-> "none",
     headers |-> Headers(NoBytes, NoBytes, None),
     body |-> <<>>, response |-> Rejected(0, EmptyDb), accepted |-> {},
     replaced |-> FALSE, identifier |-> NoBytes,
     lookup |-> [status |-> 0, store_access |-> FALSE, empty |-> TRUE]]

IngestIdle ==
    [run_start |-> 0, chunks |-> 0, prev_to |-> 0, contiguous |-> TRUE,
     applied |-> {}, twice |-> FALSE, all_applied |-> {}, first_start |-> 0,
     head_seen |-> 0, high_water |-> 0, io_errors |-> {}, claimed |-> {},
     skipped |-> {}]

\* The keys of the positions a transaction's PositionOpened events opened.
OpenedKeys(tx, results) ==
    {position_key(as_str_or(tx.events.items[i].data.position_id, S_empty)).val :
        i \in {j \in 1..Len(results) :
                  results[j] /\ Contains(as_str_or(tx.events.items[j].type, S_empty),
                                         T_PositionOpened)}}

\* The poller hands one transaction of a fetched chunk to process_transaction.
ProcessTransaction(tx) ==
    LET r == process_transaction(db, tx) IN
    /\ db' = r.db
    /\ last' = [tx |-> tx, results |-> r.results]
    /\ opened_ok' = opened_ok \cup OpenedKeys(tx, r.results)
    /\ UNCHANGED <<reader, chain, poller, ledger, ingest, client>>

\* Whether the store holds the position under the owner of the address.
HeldBy(d, address, id) ==
    LET owner_id == owner_id_of(hex_decode(strip_prefix_0x(address)).val) IN
    \/ \E r \in OpenRecords(d) : r.id = id /\ r.owner = owner_id
    \/ \E i \in 1..Len(d.historical_log) :
          d.historical_log[i].id = id /\ d.historical_log[i].owner = owner_id

InItems(items, id) ==
    \E i \in 1..Len(items) : position_key(items[i].position.position_id).val = id

\* The client's request GET /positions/open/{address}: the first or the second
\* of its two requests.
ReaderGetOpen ==
    /\ reader.pc \in {"idle", "got_hist"}
    /\ \E a \in Addresses, t \in TargetIds :
        LET address == IF reader.pc = "idle" THEN a ELSE reader.address
            target == IF reader.pc = "idle" THEN t ELSE reader.target
            resp == get_open_positions_for_address(db, address)
            saw == \E p \in resp.open_positions :
                      position_key(p.position_id).val = target
        IN reader' =
             IF reader.pc = "idle"
             THEN [reader EXCEPT !.pc = "got_open", !.address = address,
                                 !.target = target, !.saw_open = saw,
                                 !.existed = HeldBy(db, address, target),
                                 !.log_len = Len(db.historical_log)]
             ELSE [reader EXCEPT !.pc = "done", !.saw_open = saw,
                                 !.moved = (Len(db.historical_log) # reader.log_len)]
    /\ UNCHANGED <<db, opened_ok, last, chain, poller, ledger, ingest, client>>

\* The client's request GET /positions/history/{address} with no query.
ReaderGetHistory ==
    /\ reader.pc \in {"idle", "got_open"}
    /\ \E a \in Addresses, t \in TargetIds :
        LET address == IF reader.pc = "idle" THEN a ELSE reader.address
            target == IF reader.pc = "idle" THEN t ELSE reader.target
            resp == get_historical_positions_for_address(db, address,
                        [cursor |-> None, page_size |-> None])
            saw == InItems(resp.page.items, target)
        IN reader' =
             IF reader.pc = "idle"
             THEN [reader EXCEPT !.pc = "got_hist", !.address = address,
                                 !.target = target, !.saw_hist = saw,
                                 !.existed = HeldBy(db, address, target),
                                 !.log_len = Len(db.historical_log)]
             ELSE [reader EXCEPT !.pc = "done", !.saw_hist = saw,
                                 !.moved = (Len(db.historical_log) # reader.log_len)]
    /\ UNCHANGED <<db, opened_ok, last, chain, poller, ledger, ingest, client>>

\* The client starts over.
ReaderReset ==
    /\ reader.pc = "done"
    /\ reader' = ReaderIdle
    /\ UNCHANGED <<db, opened_ok, last, chain, poller, ledger, ingest, client>>

Init ==
    /\ db = EmptyDb
    /\ opened_ok = {}
    /\ last = NoLast
    /\ reader = ReaderIdle
    /\ chain = ChainIdle
    /\ poller = PollerIdle
    /\ ledger = LedgerIdle
    /\ ingest = IngestIdle
    /\ client = ClientIdle

Next == \E tx \in Transactions : ProcessTransaction(tx)

Spec == Init /\ [][Next]_vars

\* The dispatcher in a process whose environment names the module address:
\* transactions of the modules at the compiled-in address and at the deployed
\* one.
DeployedFunction == DeployedAddress \o <<"::", "clearing_house", "::", "close">>

ConfiguredTransactions ==
    Transactions
    \cup {Transaction(S_user_transaction, DeployedFunction, <<e>>) :
             e \in {PositionOpened(P2, OwnerB, TRUE),
                    PositionClosed(P2, S_50, OwnerB)}}

InitConfigured ==
    /\ db = EmptyDb
    /\ opened_ok = {}
    /\ last = NoLast
    /\ reader = ReaderIdle
    /\ chain = ChainIdle
    /\ \E env \in {EnvUnset, EnvDeployed} :
          poller = [PollerIdle EXCEPT !.config = Config_from_env(env)]
    /\ ledger = LedgerIdle
    /\ ingest = IngestIdle
    /\ client = ClientIdle

NextConfigured == \E tx \in ConfiguredTransactions : ProcessTransaction(tx)

SpecConfigured == InitConfigured /\ [][NextConfigured]_vars

\* The dispatcher at work on the events of one position while a client reads.
ReaderTransactions ==
    {UserTx(<<e>>) : e \in {PositionOpened(P1, OwnerA, TRUE),
                            PositionOpened(P1, OwnerB, FALSE),
                            PositionClosed(P1, S_50, OwnerA),
                            PositionLiquidated(P1, OwnerB)}}

NextReader ==
    \/ \E tx \in ReaderTransactions : ProcessTransaction(tx)
    \/ ReaderGetOpen
    \/ ReaderGetHistory
    \/ ReaderReset

SpecReader == Init /\ [][NextReader]_vars

----------------------------------------------------------------------------
(* A client of the /private routes                                         *)

\* The signature scheme of the capability contract: Sign(key, message) stands
\* for the signature over the message that verifies under the public key.
Sign(key, message) == <<"signature", key, message>>

valid_signature(signature, message, key) == signature = Sign(key, message)

\* x-message values, as bytes: a short one and one longer than 32 bytes.
M_A == <<65>>

M_long == [i \in 1..33 |-> IF i <= 32 THEN 66 ELSE 49]

Messages == <<M_A, M_long>>

\* The key a message stands for: its first 32 bytes, zero-filled.
MessageKey(message) == owner_id_of(message)

\* A well-formed signature that verifies for none of the messages above.
Garbage == Sign(owner_id_of(<<>>), <<>>)

SignatureKinds == {"absent", "garbage", "valid"}

\* A signature can verify only for a message that is there (0: no x-message).
Requests == {r \in SignatureKinds \X (0..Len(Messages)) :
                r[1] = "valid" => r[2] # 0}

\* The headers of a request: message 0 is an absent x-message; the signature
\* is absent, does not verify, or verifies for the message under its key.
RequestHeaders(kind, m) ==
    Headers(IF kind = "absent" THEN NoBytes
            ELSE IF kind = "garbage" THEN Some(Garbage)
            ELSE Some(Sign(MessageKey(Messages[m]), Messages[m])),
            IF m = 0 THEN NoBytes ELSE Some(Messages[m]),
            None)

Blob(len, byte) == [i \in 1..len |-> byte]

Bodies ==
    {Blob(100, 18), Blob(MAX_METADATA_SIZE, 171),
     Blob(MAX_METADATA_SIZE + 1, 171)}

\* The owner hash whose bytes are those of M_A.
OwnerOfM_A == <<"0", "x", "4", "1">>

\* The store after the owner of M_A opened P1 and P2 and closed P2.
PrivateDb ==
    process_transaction(EmptyDb,
        UserTx(<<PositionOpened(P1, OwnerOfM_A, TRUE),
                 PositionOpened(P2, OwnerOfM_A, FALSE),
                 PositionClosed(P2, S_50, OwnerOfM_A)>>)).db

GetEndpoints ==
    {"GET /private/positions/open", "GET /private/positions/history",
     "GET /private/metadata"}

\* One GET request to a /private route and its answer.
PrivateGet ==
    /\ \E endpoint \in GetEndpoints, r \in Requests :
        \E headers \in {RequestHeaders(r[1], r[2])} :
        \E resp \in {IF endpoint = "GET /private/positions/open"
                      THEN get_private_open_positions(db, headers)
                      ELSE IF endpoint = "GET /private/positions/history"
                      THEN get_private_historical_positions(db, headers,
                               [cursor |-> None, page_size |-> None])
                      ELSE get_metadata(db, headers)} :
          /\ db' = resp.db
          /\ client' = [client EXCEPT !.pc = "answered",
                                      !.endpoint = endpoint,
                                      !.headers = headers, !.body = <<>>,
                                      !.response = [resp EXCEPT !.db = EmptyDb],
                                      !.replaced = FALSE]
    /\ UNCHANGED <<opened_ok, last, reader, chain, poller, ledger, ingest>>

\* One POST /private/metadata and its answer; accepted keeps, per key served,
\* the body of the last request answered 200, and replaced tells whether this
\* request's body took the place of a different one.
PostMetadata ==
    /\ \E r \in Requests, body \in Bodies :
        \E headers \in {RequestHeaders(r[1], r[2])} :
        \E resp \in {set_metadata(db, headers, body)} :
          /\ db' = resp.db
          /\ client' = [client EXCEPT
                !.pc = "answered",
                !.endpoint = "POST /private/metadata",
                !.headers = headers, !.body = body,
                !.response = [resp EXCEPT !.db = EmptyDb],
                !.accepted =
                    IF resp.status = STATUS_OK
                    THEN {w \in @ : w.owner # resp.owner.v}
                         \cup {[owner |-> resp.owner.v, blob |-> body]}
                    ELSE @,
                !.replaced =
                    /\ resp.status = STATUS_OK
                    /\ \E w \in client.accepted :
                         w.owner = resp.owner.v /\ w.blob # body]
    /\ UNCHANGED <<opened_ok, last, reader, chain, poller, ledger, ingest>>

InitPrivate ==
    /\ db = PrivateDb
    /\ opened_ok = {}
    /\ last = NoLast
    /\ reader = ReaderIdle
    /\ chain = ChainIdle
    /\ poller = PollerIdle
    /\ ledger = LedgerIdle
    /\ ingest = IngestIdle
    /\ client = ClientIdle

NextPrivate == PrivateGet \/ PostMetadata

SpecPrivate == InitPrivate /\ [][NextPrivate]_vars

----------------------------------------------------------------------------
(* A client of the routes that take an identifier                          *)

Odd == <<"0", "x", "1">>

\* 32 and 33 bytes of 0x11 as hex, with the prefix.
Addr32 == <<"0", "x">> \o [i \in 1..64 |-> "1"]

Addr33 == <<"0", "x">> \o [i \in 1..66 |-> "1"]

Identifiers == {P1, P_bad, Odd, OwnerA, Addr32, Addr33, R_dead, S_empty}

IdentifierEndpoints ==
    {"GET /positions/{position_id}", "GET /positions/open/{address}",
     "GET /positions/history/{address}", "GET /private/notes/unspent"}

\* A path parameter is always there; the x-receiver-hash header may be absent.
LookupRequests ==
    {<<e, Some(i)>> : e \in IdentifierEndpoints, i \in Identifiers}
    \cup {<<"GET /private/notes/unspent", NoBytes>>}

\* What the route answers to the identifier: status, whether the handler
\* called the store, and whether the body holds no record.
LookupAnswer(d, endpoint, identifier) ==
    IF endpoint = "GET /positions/{position_id}"
    THEN LET r == get_position_by_id(d, identifier.v) IN
         [status |-> r.status, store_access |-> r.store_access,
          empty |-> r.position = {}]
    ELSE IF endpoint = "GET /positions/open/{address}"
    THEN LET r == get_open_positions_for_address(d, identifier.v) IN
         [status |-> r.status, store_access |-> r.store_access,
          empty |-> r.open_positions = {}]
    ELSE IF endpoint = "GET /positions/history/{address}"
    THEN LET r == get_historical_positions_for_address(d, identifier.v,
                      [cursor |-> None, page_size |-> None]) IN
         [status |-> r.status, store_access |-> r.store_access,
          empty |-> r.page.items = <<>>]
    ELSE LET r == get_unspent_notes_handler(d,
                      Headers(NoBytes, NoBytes, identifier)) IN
         [status |-> r.status, store_access |-> r.store_access,
          empty |-> r.unspent_notes = {}]

\* One request to a route that takes an identifier, and its answer.
Lookup ==
    /\ \E q \in LookupRequests :
          client' = [client EXCEPT !.pc = "answered", !.endpoint = q[1],
                                   !.identifier = q[2],
                                   !.lookup = LookupAnswer(db, q[1], q[2])]
    /\ UNCHANGED <<db, opened_ok, last, reader, chain, poller, ledger, ingest>>

\* The events that fill the store the identifiers point into.
LookupTransactions ==
    {UserTx(<<e>>) : e \in {PositionOpened(P1, OwnerA, TRUE),
                            PositionClosed(P1, S_50, OwnerA),
                            PositionOpened(P2, Addr32, FALSE),
                            PositionLiquidated(P2, OwnerB),
                            NoteCreated(7, R_dead, S_300)}}

NextLookup ==
    \/ \E tx \in LookupTransactions : ProcessTransaction(tx)
    \/ Lookup

SpecLookup == Init /\ [][NextLookup]_vars

\* The event with one field of its payload absent.
Without(event, field) == [event EXCEPT !.data[field] = JNull]

\* The event with one field of its payload of another JSON type: a number
\* where a string or a boolean is read, a string where a number is read.
WrongTyped(event, field) ==
    [event EXCEPT !.data[field] =
        IF @.k = "num" THEN JStr(<<"7">>) ELSE JNum(7)]

\* Events of known types with a field absent or of the wrong type.
MalformedEvents ==
    {Without(PositionClosed(P1, S_50, OwnerA), f) :
        f \in {"position_id", "pnl", "user"}}
    \cup {Without(PositionOpened(P2, OwnerB, TRUE), f) :
             f \in {"position_id", "owner_hash", "is_long", "size"}}
    \cup {Without(PositionLiquidated(P1, OwnerA), "user"),
          WrongTyped(PositionClosed(P1, S_50, OwnerA), "pnl"),
          Without(NoteCreated(7, R_dead, S_300), "note_nonce"),
          WrongTyped(NoteCreated(7, R_dead, S_300), "note_nonce"),
          Without(NoteCreated(7, R_dead, S_300), "amount"),
          Without(NoteClaimed(format_0x_016x(7)), "note_id")}

\* The dispatcher at work on malformed events, between well-formed ones.
MalformedTransactions ==
    {UserTx(<<e>>) : e \in MalformedEvents}
    \cup {UserTx(<<e>>) : e \in {PositionOpened(P1, OwnerA, TRUE),
                                  PositionOpened(P2, OwnerB, TRUE),
                                  NoteCreated(7, R_dead, S_300)}}

NextMalformed == \E tx \in MalformedTransactions : ProcessTransaction(tx)

SpecMalformed == Init /\ [][NextMalformed]_vars

\* The event under another type tag.
Tagged(event, type) == [event EXCEPT !.type = JStr(type)]

\* Type tags the ledger can carry besides the five plain ones: an event struct
\* with a type argument, a later version of a known struct, a struct of a
\* known name in another module, and a struct the dispatcher does not know.
TagGeneric == <<"0x2", "::">> \o T_NoteCreated \o <<"<", "0x1::aptos_coin::AptosCoin", ">">>

TagVersioned == <<"0x2", "::">> \o T_PositionOpened \o <<"V2">>

TagOtherModule == <<"0x2", "::", "vault", "::", "PositionClosed">>

TagUnknown == <<"0x2", "::", "clearing_house", "::", "FundingPaid">>

\* The dispatcher at work on events of these tags, between plain ones.
RoutedTransactions ==
    {UserTx(<<e>>) :
        e \in {PositionOpened(P1, OwnerA, TRUE), PositionOpened(P2, OwnerB, FALSE),
               PositionClosed(P1, S_50, OwnerA), PositionLiquidated(P2, OwnerB),
               NoteCreated(7, R_dead, S_300), NoteClaimed(format_0x_016x(7)),
               Tagged(NoteCreated(255, R_beef, S_300), TagGeneric),
               Tagged(PositionOpened(P2, OwnerA, TRUE), TagVersioned),
               Tagged(PositionClosed(P1, S_10, OwnerB), TagOtherModule),
               Tagged(PositionClosed(P2, S_10, OwnerB), TagUnknown)}}

NextRouted == \E tx \in RoutedTransactions : ProcessTransaction(tx)

SpecRouted == Init /\ [][NextRouted]_vars

\* The dispatcher at work on note events.
NextNotes == \E tx \in NoteTransactions : ProcessTransaction(tx)

SpecNotes == Init /\ [][NextNotes]_vars

----------------------------------------------------------------------------
(* A client paging through an owner's history                              *)

MaxLogLen == 37

\* The store after positions 1..n were opened and closed in that order, every
\* third one by OwnerB and the others by OwnerA.
PagedDb(n) ==
    [EmptyDb EXCEPT !.historical_log =
        [i \in 1..n |->
            [owner |-> owner_id_of(hex_decode(strip_prefix_0x(
                          IF i % 3 = 0 THEN OwnerB ELSE OwnerA)).val),
             id |-> <<i>>,
             entry |-> [position |-> [position_id |-> <<"0", "x">> \o hex_encode_byte(i),
                                      is_long |-> TRUE, entry_price |-> S_100,
                                      margin |-> S_10, size |-> S_5],
                        status |-> "Closed", pnl |-> S_50, closer |-> OwnerA]]]]

PageSizes == {None, Some(0), Some(1), Some(3), Some(10), Some(20), Some(25)}

InitPage ==
    /\ \E n \in 0..MaxLogLen : db = PagedDb(n)
    /\ opened_ok = {}
    /\ last = NoLast
    /\ reader = ReaderIdle
    /\ chain = ChainIdle
    /\ poller = PollerIdle
    /\ ledger = LedgerIdle
    /\ ingest = IngestIdle
    /\ client = ClientIdle

\* The client picks an owner and a page size and starts with no cursor.
ChainStart ==
    /\ chain.pc = "idle"
    /\ \E a \in Addresses, ps \in PageSizes :
        chain' = [ChainIdle EXCEPT !.pc = "paging", !.address = a,
                                   !.page_size = ps,
                                   !.expected = OwnerLog(db, address_owner_id(a).val)]
    /\ UNCHANGED <<db, opened_ok, last, reader, poller, ledger, ingest, client>>

\* One request GET /positions/history/{address}?cursor&page_size; the client
\* keeps the items and feeds next_cursor into its next request, and stops when
\* next_cursor is null.  It gives up after Len(expected) + 2 requests.
ChainRequest ==
    /\ chain.pc = "paging"
    /\ chain.requests <= Len(chain.expected) + 1
    /\ LET resp == get_historical_positions_for_address(db, chain.address,
                      [cursor |-> chain.cursor, page_size |-> chain.page_size])
       IN chain' = [chain EXCEPT
                       !.collected = @ \o resp.page.items,
                       !.requests = @ + 1,
                       !.cursor = resp.page.next_cursor,
                       !.pc = IF resp.page.next_cursor.some THEN "paging"
                              ELSE "done"]
    /\ UNCHANGED <<db, opened_ok, last, reader, poller, ledger, ingest, client>>

NextPage == ChainStart \/ ChainRequest

SpecPage == InitPage /\ [][NextPage]_vars

\* Positions that are open while a client pages: two of OwnerA, one of OwnerB.
Q1 == <<"0", "x", "f", "1">>

Q2 == <<"0", "x", "f", "2">>

Q3 == <<"0", "x", "f", "3">>

\* The store with n settled positions and the three open ones.
PagedOpenDb(n) ==
    process_transaction(PagedDb(n),
        UserTx(<<PositionOpened(Q1, OwnerA, TRUE),
                 PositionOpened(Q2, OwnerA, FALSE),
                 PositionOpened(Q3, OwnerB, TRUE)>>)).db

LogLengths == {0, 3, 4, 7}

SettlingTransactions ==
    {UserTx(<<e>>) : e \in {PositionClosed(Q1, S_50, OwnerA),
                            PositionLiquidated(Q2, OwnerB),
                            PositionClosed(Q3, S_10, OwnerB)}}

InitPageAppend ==
    /\ \E n \in LogLengths : db = PagedOpenDb(n)
    /\ opened_ok = {}
    /\ last = NoLast
    /\ reader = ReaderIdle
    /\ chain = ChainIdle
    /\ poller = PollerIdle
    /\ ledger = LedgerIdle
    /\ ingest = IngestIdle
    /\ client = ClientIdle

\* The poller settles a position between two page requests of the client.
SettleBetweenPages ==
    /\ chain.pc = "paging"
    /\ chain.requests >= 1
    /\ \E tx \in SettlingTransactions :
        \E r \in {process_transaction(db, tx)} :
          /\ db' = r.db
          /\ last' = [tx |-> tx, results |-> r.results]
    /\ UNCHANGED <<opened_ok, reader, chain, poller, ledger, ingest, client>>

NextPageAppend == ChainStart \/ ChainRequest \/ SettleBetweenPages

SpecPageAppend == InitPageAppend /\ [][NextPageAppend]_vars

-----------------------------------------------------------------------------
(* The dispatcher and the metadata route at work on several owners         *)

\* Bodies of a few bytes.
SmallBodies == {Blob(2, 18), Blob(3, 171)}

\* Requests whose signature verifies for their message, and one without
\* x-signature.
OwnersRequests == {<<"valid", 1>>, <<"valid", 2>>, <<"absent", 1>>}

\* POST /private/metadata with a small body, and its answer.
PostSmallMetadata ==
    /\ \E r \in OwnersRequests, body \in SmallBodies :
        \E headers \in {RequestHeaders(r[1], r[2])} :
        \E resp \in {set_metadata(db, headers, body)} :
          /\ db' = resp.db
          /\ client' = [client EXCEPT
                !.pc = "answered",
                !.endpoint = "POST /private/metadata",
                !.headers = headers, !.body = body,
                !.response = [resp EXCEPT !.db = EmptyDb],
                !.accepted =
                    IF resp.status = STATUS_OK
                    THEN {w \in @ : w.owner # resp.owner.v}
                         \cup {[owner |-> resp.owner.v, blob |-> body]}
                    ELSE @,
                !.replaced =
                    /\ resp.status = STATUS_OK
                    /\ \E w \in client.accepted :
                         w.owner = resp.owner.v /\ w.blob # body]
    /\ UNCHANGED <<opened_ok, last, reader, chain, poller, ledger, ingest>>

\* Events of the positions of three owners, one of them the owner of M_A, with
\* an id opened again under another owner.
OwnersTransactions ==
    {UserTx(<<e>>) : e \in {PositionOpened(P1, OwnerA, TRUE),
                            PositionOpened(P1, OwnerB, FALSE),
                            PositionOpened(P2, OwnerB, TRUE),
                            PositionOpened(Q1, OwnerOfM_A, TRUE),
                            PositionClosed(P1, S_50, OwnerB),
                            PositionLiquidated(P2, OwnerA)}}

\* The store holds a note before the first event.
InitOwners ==
    /\ db = process_transaction(EmptyDb,
                UserTx(<<NoteCreated(7, R_dead, S_300)>>)).db
    /\ opened_ok = {}
    /\ last = NoLast
    /\ reader = ReaderIdle
    /\ chain = ChainIdle
    /\ poller = PollerIdle
    /\ ledger = LedgerIdle
    /\ ingest = IngestIdle
    /\ client = ClientIdle

NextOwners ==
    \/ \E tx \in OwnersTransactions : ProcessTransaction(tx)
    \/ PostSmallMetadata

SpecOwners == InitOwners /\ [][NextOwners]_vars

-----------------------------------------------------------------------------
(* A client of every route of the API                                      *)

\* One request GET /health and its answer.
Health ==
    /\ client' = [client EXCEPT !.pc = "answered", !.endpoint = "GET /health",
                                !.identifier = NoBytes, !.lookup = health]
    /\ UNCHANGED <<db, opened_ok, last, reader, chain, poller, ledger, ingest>>

\* The store of the /private client with a note in it.
InitApi ==
    /\ db = process_transaction(PrivateDb,
                UserTx(<<NoteCreated(7, R_dead, S_300)>>)).db
    /\ opened_ok = {}
    /\ last = NoLast
    /\ reader = ReaderIdle
    /\ chain = ChainIdle
    /\ poller = PollerIdle
    /\ ledger = LedgerIdle
    /\ ingest = IngestIdle
    /\ client = ClientIdle

NextApi == Lookup \/ PrivateGet \/ PostSmallMetadata \/ Health

SpecApi == InitApi /\ [][NextApi]_vars

----------------------------------------------------------------------------
(* The chain poller (indexer.rs): run_indexer and indexer_logic            *)
(*                                                                         *)
(* poller.call and poller.answer record the last ledger call and how it    *)
(* ended: "ok"; "err", the call returned Err (no connection, a timeout, a  *)
(* body that is no JSON); "other_json", the call returned Ok with a JSON   *)
(* body that is not the document asked for, as the node's JSON error       *)
(* object under a non-2xx status is (the status is not looked at).         *)

TRANSACTION_CHUNK_SIZE == 100

LOOKBACK == 100

MaxGrowth == 1

MaxRestarts == 1

InitialVersions == {0, 150}

Growth == {1, 150}

\* The transaction the ledger holds at a version: mostly block metadata, every
\* tenth version a transaction of interest, and at two versions the creation
\* and the claim of the note of nonce 7.
LedgerTx(v) ==
    CASE v = 145 -> UserTx(<<NoteCreated(7, R_dead, S_300)>>)
      [] v = 151 -> UserTx(<<NoteClaimed(format_0x_016x(7))>>)
      [] v % 50 = 10 -> UserTx(<<PositionOpened(P1, OwnerA, TRUE)>>)
      [] v % 50 = 20 -> UserTx(<<PositionClosed(P1, S_50, OwnerA),
                                 PositionOpened(P2, OwnerB, TRUE)>>)
      [] v % 50 = 30 -> UserTx(<<PositionLiquidated(P2, OwnerB)>>)
      [] v % 50 = 40 -> Transaction(S_user_transaction, OtherFunction,
                                    <<PositionOpened(P2, OwnerA, FALSE)>>)
      [] OTHER -> Transaction(<<"block_metadata_transaction">>, S_empty, <<>>)

Dispatch_drops_transaction_on_error(st, tx) ==
    CHOOSE next \in
        {[db |-> IF \E i \in 1..Len(r.results) : ~r.results[i]
                 THEN st.db ELSE r.db,
          opened_ok |-> st.opened_ok,
          last |-> [tx |-> tx, results |-> r.results]] :
             r \in {process_transaction(st.db, tx)}} : TRUE

\* process_transaction on one transaction, with the history it leaves.
Dispatch(st, tx) ==
    CHOOSE next \in
        {[db |-> r.db,
          opened_ok |-> IF \A i \in 1..Len(r.results) : ~r.results[i]
                        THEN st.opened_ok
                        ELSE st.opened_ok \cup OpenedKeys(tx, r.results),
          last |-> [tx |-> tx, results |-> r.results]] :
             r \in {process_transaction(st.db, tx)}} : TRUE

\* The loop over the transactions of a fetched chunk, in version order.  The
\* range is split in halves, and the state after the lower half is a value
\* before the upper half starts, which keeps the evaluation shallow.
RECURSIVE DispatchRange(_, _, _)
DispatchRange(st, v, to) ==
    IF v > to THEN st
    ELSE IF v = to THEN Dispatch(st, LedgerTx(v))
    ELSE CHOOSE upper \in
            {DispatchRange(lower, ((v + to) \div 2) + 1, to) :
                lower \in {DispatchRange(st, v, (v + to) \div 2)}} : TRUE

\* process_transaction on one transaction while the storage under the store
\* fails: every store call of its handlers returns an I/O error.
DispatchStoreError(st, tx) ==
    CHOOSE next \in
        {[failed EXCEPT !.db.io_error = FALSE] :
            failed \in {Dispatch([st EXCEPT !.db.io_error = TRUE], tx)}} : TRUE

\* The filter of process_transaction lets the transaction through and it has
\* events: its handlers are called.
HasDispatchedEvents(tx) ==
    /\ as_str_or(tx.type, S_empty) = S_user_transaction
    /\ tx.function.k = "str"
    /\ starts_with(tx.function.s, NOX_MODULE_ADDRESS)
    /\ tx.events.k = "array"
    /\ tx.events.items # <<>>

\* The subtraction without the clamp at 0.
sub_unclamped(a, b) == a - b

\* u64::saturating_sub
saturating_sub(a, b) == IF a >= b THEN a - b ELSE 0

\* indexer_logic up to the loop: the ledger info is read and the cursor is set
\* LOOKBACK versions behind the head.
StartOk ==
    /\ poller.pc = "start"
    /\ LET from == saturating_sub(ledger.version, LOOKBACK) IN
       /\ poller' = [poller EXCEPT !.pc = "poll", !.has_cursor = TRUE,
                                   !.from_version = from,
                                   !.call = "ledger_info", !.answer = "ok"]
       /\ ingest' = [ingest EXCEPT
                        !.run_start = from, !.chunks = 0, !.contiguous = TRUE,
                        !.applied = {}, !.twice = FALSE, !.skipped = {},
                        !.first_start = IF poller.has_cursor THEN @ ELSE from,
                        !.head_seen = Max(@, ledger.version),
                        !.high_water = Max(@, from)]
    /\ UNCHANGED <<db, opened_ok, last, reader, chain, ledger, client>>

\* The first get_ledger_info fails, or its body holds no ledger_version that
\* parses: indexer_logic returns the error and run_indexer sleeps.
StartErr ==
    /\ poller.pc = "start"
    /\ poller.restarts < MaxRestarts
    /\ \E answer \in {"err", "other_json"} :
          poller' = [poller EXCEPT !.pc = "restart_sleep", !.restarts = @ + 1,
                                   !.call = "ledger_info", !.answer = answer]
    /\ UNCHANGED <<db, opened_ok, last, reader, chain, ledger, ingest, client>>

RestartWake_returns ==
    /\ poller.pc = "restart_sleep"
    /\ poller' = [poller EXCEPT !.pc = "off"]
    /\ UNCHANGED <<db, opened_ok, last, reader, chain, ledger, ingest, client>>

\* run_indexer: after RESTART_DELAY_SECONDS indexer_logic is called again.
RestartWake ==
    /\ poller.pc = "restart_sleep"
    /\ poller' = [poller EXCEPT !.pc = "start"]
    /\ UNCHANGED <<db, opened_ok, last, reader, chain, ledger, ingest, client>>

\* The loop's chunk with its upper end one version too far.
PollOk_chunk_one_more ==
    /\ poller.pc = "poll"
    /\ LET latest_version == ledger.version IN
       /\ poller' =
            IF poller.from_version >= latest_version
            THEN [poller EXCEPT !.pc = "sleep",
                                !.call = "ledger_info", !.answer = "ok",
                                !.latest_version = latest_version]
            ELSE [poller EXCEPT !.pc = "fetch",
                                !.call = "ledger_info", !.answer = "ok",
                                !.latest_version = latest_version,
                                !.to_version =
                                    Min(poller.from_version
                                        + TRANSACTION_CHUNK_SIZE,
                                        latest_version)]
       /\ ingest' = [ingest EXCEPT !.head_seen = Max(@, latest_version)]
    /\ UNCHANGED <<db, opened_ok, last, reader, chain, ledger, client>>

\* The loop's get_ledger_info succeeds: caught up (sleep) or a chunk to fetch.
PollOk ==
    /\ poller.pc = "poll"
    /\ LET latest_version == ledger.version IN
       /\ poller' =
            IF poller.from_version >= latest_version
            THEN [poller EXCEPT !.pc = "sleep",
                                !.call = "ledger_info", !.answer = "ok",
                                !.latest_version = latest_version]
            ELSE [poller EXCEPT !.pc = "fetch",
                                !.call = "ledger_info", !.answer = "ok",
                                !.latest_version = latest_version,
                                !.to_version =
                                    Min(poller.from_version
                                        + TRANSACTION_CHUNK_SIZE - 1,
                                        latest_version)]
       /\ ingest' = [ingest EXCEPT !.head_seen = Max(@, latest_version)]
    /\ UNCHANGED <<db, opened_ok, last, reader, chain, ledger, client>>

\* The loop's get_ledger_info returns an error: sleep and retry.
PollErr ==
    /\ poller.pc = "poll"
    /\ poller' = [poller EXCEPT !.pc = "sleep", !.call = "ledger_info",
                                !.answer = "err"]
    /\ UNCHANGED <<db, opened_ok, last, reader, chain, ledger, ingest, client>>

\* The loop's get_ledger_info returns a body with no ledger_version that
\* parses: indexer_logic returns the error and run_indexer sleeps.
PollInvalid ==
    /\ poller.pc = "poll"
    /\ poller.restarts < MaxRestarts
    /\ poller' = [poller EXCEPT !.pc = "restart_sleep", !.restarts = @ + 1,
                                !.call = "ledger_info",
                                !.answer = "other_json"]
    /\ UNCHANGED <<db, opened_ok, last, reader, chain, ledger, ingest, client>>

\* The history of a chunk whose Ok arm ran; applied are the versions handed to
\* process_transaction, io_errors the versions of the chunk at which the
\* store returned an I/O error, and claimed the ids of the notes that a chunk
\* has taken out of the unspent set, removed being those of this chunk.
ChunkDone(from, to, applied, removed) ==
    [ingest EXCEPT
        !.chunks = @ + 1,
        !.prev_to = to,
        !.contiguous = @ /\ from = (IF ingest.chunks = 0 THEN ingest.run_start
                                    ELSE ingest.prev_to + 1),
        !.twice = @ \/ (applied \cap ingest.applied # {}),
        !.applied = @ \cup applied,
        !.all_applied = @ \cup applied,
        !.high_water = Max(@, to + 1),
        !.io_errors = {},
        !.claimed = @ \cup removed]

\* get_transactions returns the array of the range: every transaction goes
\* through process_transaction and the cursor moves past the chunk.
FetchArray ==
    /\ poller.pc = "fetch"
    /\ \E st \in {DispatchRange([db |-> db, opened_ok |-> opened_ok,
                                  last |-> last],
                                 poller.from_version, poller.to_version)} :
          /\ db' = st.db
          /\ opened_ok' = st.opened_ok
          /\ last' = st.last
          /\ ingest' = ChunkDone(poller.from_version, poller.to_version,
                                 poller.from_version..poller.to_version,
                                 UnspentIds(db) \ UnspentIds(st.db))
    /\ poller' = [poller EXCEPT !.pc = "sleep",
                                !.call = "transactions", !.answer = "ok",
                                !.from_version = poller.to_version + 1]
    /\ UNCHANGED <<reader, chain, ledger, client>>

\* As FetchArray, but the storage fails while the transaction of one version
\* is processed: its handlers return the store's error, process_transaction
\* logs it, and the loop over the chunk goes on to the end.
FetchArrayStoreError ==
    /\ poller.pc = "fetch"
    /\ \E f \in {v \in poller.from_version..poller.to_version :
                    HasDispatchedEvents(LedgerTx(v))} :
        \E before \in {DispatchRange([db |-> db, opened_ok |-> opened_ok,
                                       last |-> last],
                                      poller.from_version, f - 1)} :
        \E at \in {DispatchStoreError(before, LedgerTx(f))} :
        \E st \in {DispatchRange(at, f + 1, poller.to_version)} :
          /\ db' = st.db
          /\ opened_ok' = st.opened_ok
          /\ last' = st.last
          /\ ingest' = [ChunkDone(poller.from_version, poller.to_version,
                                  poller.from_version..poller.to_version,
                                  UnspentIds(db) \ UnspentIds(st.db))
                           EXCEPT !.io_errors = {f}]
    /\ poller' = [poller EXCEPT !.pc = "sleep",
                                !.call = "transactions", !.answer = "ok",
                                !.from_version = poller.to_version + 1]
    /\ UNCHANGED <<reader, chain, ledger, client>>

\* A body that is no array handled as an error of the call: the same range is
\* asked for again.
FetchNotArray_retries ==
    /\ poller.pc = "fetch"
    /\ poller' = [poller EXCEPT !.pc = "sleep", !.call = "transactions",
                                !.answer = "other_json"]
    /\ UNCHANGED <<db, opened_ok, last, reader, chain, ledger, ingest, client>>

\* get_transactions returns a JSON body that is no array: as_array() is None,
\* the loop runs over an empty vector and the cursor moves past the chunk.
FetchNotArray ==
    /\ poller.pc = "fetch"
    /\ poller' = [poller EXCEPT !.pc = "sleep",
                                !.call = "transactions",
                                !.answer = "other_json",
                                !.from_version = poller.to_version + 1]
    /\ ingest' = [ChunkDone(poller.from_version, poller.to_version, {}, {})
                     EXCEPT !.skipped = @ \cup (poller.from_version..poller.to_version)]
    /\ UNCHANGED <<db, opened_ok, last, reader, chain, ledger, client>>

FetchErr_skips_chunk ==
    /\ poller.pc = "fetch"
    /\ poller' = [poller EXCEPT !.pc = "sleep", !.call = "transactions",
                                !.answer = "err",
                                !.from_version = poller.to_version + 1]
    /\ UNCHANGED <<db, opened_ok, last, reader, chain, ledger, ingest, client>>

\* get_transactions returns an error: sleep and retry the same range.
FetchErr ==
    /\ poller.pc = "fetch"
    /\ poller' = [poller EXCEPT !.pc = "sleep", !.call = "transactions",
                                !.answer = "err"]
    /\ UNCHANGED <<db, opened_ok, last, reader, chain, ledger, ingest, client>>

\* A sleep of the loop ends: the next iteration.
Wake ==
    /\ poller.pc = "sleep"
    /\ poller' = [poller EXCEPT !.pc = "poll"]
    /\ UNCHANGED <<db, opened_ok, last, reader, chain, ledger, ingest, client>>

\* The ledger commits more transactions.
LedgerAdvance ==
    /\ ledger.grown < MaxGrowth
    /\ \E d \in Growth :
          ledger' = [version |-> ledger.version + d, grown |-> ledger.grown + 1]
    /\ UNCHANGED <<db, opened_ok, last, reader, chain, poller, ingest, client>>

InitPoller ==
    /\ db = EmptyDb
    /\ opened_ok = {}
    /\ last = NoLast
    /\ reader = ReaderIdle
    /\ chain = ChainIdle
    /\ poller = [PollerIdle EXCEPT !.pc = "start"]
    /\ \E v \in InitialVersions : ledger = [version |-> v, grown |-> 0]
    /\ ingest = IngestIdle
    /\ client = ClientIdle

NextPoller ==
    \/ StartOk
    \/ StartErr
    \/ RestartWake
    \/ PollOk
    \/ PollErr
    \/ PollInvalid
    \/ FetchArray
    \/ FetchArrayStoreError
    \/ FetchNotArray
    \/ FetchErr
    \/ Wake
    \/ LedgerAdvance

SpecPoller == InitPoller /\ [][NextPoller]_vars

\* The poller is scheduled and its sleeps end; the ledger calls succeed again
\* and again.
SpecPollerFair ==
    /\ SpecPoller
    /\ WF_vars(Wake)
    /\ WF_vars(RestartWake)
    /\ SF_vars(StartOk)
    /\ SF_vars(PollOk)
    /\ SF_vars(FetchArray)

\* The restart sleep of run_indexer ends; nothing is assumed of the ledger
\* calls.
SpecPollerRestarts == SpecPoller /\ WF_vars(RestartWake)

----------------------------------------------------------------------------
(* Properties of the poller                                                *)

\* C1: across a run of run_indexer, restarts of indexer_logic included, the
\* cursor from_version is never lower than a value it held earlier
\* (ingest.high_water is the highest value it has held).
C1_CursorNeverRegresses ==
    poller.has_cursor => poller.from_version >= ingest.high_water

\* C2: no event is lost: given that the ledger calls succeed again and again,
\* from some point on every version from the first start version up to every
\* head the ledger has reported has been handed to process_transaction.
C2_EveryVersionEventuallyApplied ==
    <>[](/\ poller.has_cursor
         /\ \A v \in ingest.first_start..ingest.head_seen :
               v \in ingest.all_applied)

\* C3: within one run of indexer_logic the chunks whose Ok arm ran start at
\* the run's start version and each starts at the previous to_version + 1, no
\* version is handed to process_transaction twice, and every version between
\* the start version and the cursor has been handed to process_transaction.
C3_ChunksContiguousNoSkip ==
    poller.has_cursor =>
        /\ ingest.contiguous
        /\ ~ingest.twice
        /\ \A v \in ingest.run_start..(poller.from_version - 1) :
              v \in ingest.applied

----------------------------------------------------------------------------
(* Properties of the position store                                        *)

\* The number of open-index records with the id, over all owners.
OpenCount(d, id) ==
    LET recs == {r \in OpenRecords(d) : r.id = id} IN
    BagCardinality([r \in recs |-> d.open_index[r]])

\* The number of historical entries with the id, over all owners.
HistCount(d, id) ==
    Cardinality({i \in 1..Len(d.historical_log) : d.historical_log[i].id = id})

EventKey(e) == position_key(as_str_or(e.data.position_id, S_empty))

C5_PositionInExactlyOne ==
    \A id \in opened_ok : OpenCount(db, id) + HistCount(db, id) = 1

C5_Witness ==
    /\ Cardinality(opened_ok) = 2
    /\ \E id \in opened_ok : OpenCount(db, id) = 1 /\ HistCount(db, id) = 0
    /\ \E id \in opened_ok : OpenCount(db, id) = 0 /\ HistCount(db, id) = 1
    /\ Len(last.results) = 1 /\ ~last.results[1]

\* C6: applying a PositionOpened event a second time changes nothing in the
\* store, and after the two applies at most one open record has the id:
\* exactly one when the first apply succeeded.
C6_OpenedTwiceIdempotent ==
    /\ \A e \in OpenedEvents :
          LET once == process_event(db, e)
              twice == process_event(once.db, e)
          IN /\ twice.db = once.db
             /\ once.ok => OpenCount(twice.db, EventKey(e).val) = 1
             /\ OpenCount(twice.db, EventKey(e).val) <= 1
    /\ \A e \in OpenedEvents :
          (last.tx = UserTx(<<e, e>>) /\ last.results[1])
              => (~last.results[2] /\ OpenCount(db, EventKey(e).val) = 1)

C6_Witness ==
    /\ last.tx = UserTx(<<PositionOpened(P1, OwnerA, TRUE),
                          PositionOpened(P1, OwnerA, TRUE)>>)
    /\ last.results = <<TRUE, FALSE>>
    /\ OpenCount(db, <<1>>) = 1

\* C7: a PositionOpened whose id is already open or historical, under any
\* owner, fails in add_open_position and leaves the store as it was; a closed
\* or liquidated position is not re-opened.
C7_AddOpenRejectsExisting ==
    \A e \in OpenedEvents :
        (EventKey(e).val \in OpenIds(db) \cup HistoricalIds(db))
            => process_event(db, e) = Err(db)

C7_Witness ==
    /\ \E e \in OpenedEvents :
          /\ last.tx = UserTx(<<e>>)
          /\ last.results = <<FALSE>>
          /\ EventKey(e).val \in HistoricalIds(db)
          /\ EventKey(e).val \notin OpenIds(db)

\* C8: a PositionClosed or PositionLiquidated whose id is not open fails with
\* NotFound and leaves the store as it was, no id has two historical entries,
\* and every event of a transaction is dispatched, those after a failed one
\* included.
C8_MoveNotOpenIsNotFound ==
    /\ \A e \in ClosedEvents \cup LiquidatedEvents :
          (EventKey(e).ok /\ EventKey(e).val \notin OpenIds(db))
              => process_event(db, e) = Err(db)
    /\ \A id \in HistoricalIds(db) : HistCount(db, id) = 1
    /\ (last.tx.type = JStr(S_user_transaction)
        /\ last.tx.function = JStr(NoxFunction))
            => Len(last.results) = Len(last.tx.events.items)

C8_Witness ==
    /\ last.tx = UserTx(<<PositionClosed(P2, S_50, OwnerA),
                          PositionClosed(P2, S_50, OwnerA),
                          PositionOpened(P1, OwnerB, FALSE)>>)
    /\ last.results = <<TRUE, FALSE, TRUE>>
    /\ HistCount(db, <<2>>) = 1

----------------------------------------------------------------------------
(* Properties of pagination                                                *)

\* C9 as stated: for every page size, the chain started with no cursor ends
\* (within Len(log) + 1 requests) and has then collected exactly the owner's
\* log, in order.
C9_ChainYieldsLog ==
    /\ chain.pc = "done" => chain.collected = chain.expected
    /\ chain.requests > Len(chain.expected) => chain.pc = "done"

\* C9, amended: the same for every page size of at least 1 (and for the
\* default page size of a request that names none).
C9_ChainYieldsLogPositivePageSize ==
    unwrap_or(chain.page_size, DEFAULT_PAGE_SIZE) >= 1
        => /\ chain.pc = "done" => chain.collected = chain.expected
           /\ chain.requests > Len(chain.expected) => chain.pc = "done"

C9_Witness ==
    /\ chain.pc = "done"
    /\ chain.page_size = Some(3)
    /\ Len(chain.expected) = 7
    /\ chain.requests = 3
    /\ chain.collected = chain.expected

Cursors == {None} \cup {Some(c) : c \in 0..(MaxLogLen + 1)}

\* C10: the page of a request holds the entries at offsets
\* [cursor, cursor + page_size) of the owner's log, with cursor 0 and page
\* size 20 when unset; next_cursor is null exactly when the page holds fewer
\* than page_size items and is cursor + page_size otherwise.  With 25 entries
\* and page size 10 the chain sees next_cursor 10, then 20, then null.
C10_PageIsSlice ==
    /\ chain.pc = "idle" =>
       \A a \in Addresses, cursor \in Cursors, ps \in PageSizes :
          LET log == OwnerLog(db, owner_id_of(hex_decode(strip_prefix_0x(a)).val))
              c == IF cursor.some THEN cursor.v ELSE 0
              size == IF ps.some THEN ps.v ELSE 20
              page == get_historical_positions_for_address(db, a,
                          [cursor |-> cursor, page_size |-> ps]).page
          IN /\ Len(page.items) = Max(0, Min(size, Len(log) - c))
             /\ \A k \in 1..Len(page.items) : page.items[k] = log[c + k]
             /\ page.next_cursor.some <=> ~(Len(page.items) < size)
             /\ page.next_cursor.some => page.next_cursor.v = c + size
    /\ (Len(chain.expected) = 25 /\ chain.page_size = Some(10))
          => /\ chain.requests = 1
                  => chain.cursor = Some(10) /\ Len(chain.collected) = 10
             /\ chain.requests = 2
                  => chain.cursor = Some(20) /\ Len(chain.collected) = 20
             /\ chain.requests = 3
                  => chain.cursor = None /\ chain.collected = chain.expected

C10_Witness ==
    /\ Len(chain.expected) = 25 /\ chain.page_size = Some(10)
    /\ chain.requests = 3 /\ chain.pc = "done"
    /\ Len(chain.collected) = 25

----------------------------------------------------------------------------
(* Properties of the historical log                                        *)

\* The log of the address's owner as GET /positions/history/{address} with no
\* query returns it (the first DEFAULT_PAGE_SIZE entries).
ObservedLog(d, address) ==
    get_historical_positions_for_address(d, address,
        [cursor |-> None, page_size |-> None]).page.items

IsPrefix(s, t) == Len(s) <= Len(t) /\ SubSeq(t, 1, Len(s)) = s

\* C11: an owner's historical log is append-only: over every step the log
\* observed before is a prefix of the log observed after (no entry is
\* removed, reordered or modified).
C11_HistoricalLogAppendOnly ==
    [][\A a \in Addresses :
          /\ IsPrefix(ObservedLog(db, a), ObservedLog(db', a))
          /\ IsPrefix(OwnerLog(db, address_owner_id(a).val),
                      OwnerLog(db', address_owner_id(a).val))]_vars

\* A second entry was appended to an owner's log by a PositionClosed event.
C11_Witness ==
    /\ Len(ObservedLog(db, OwnerA)) = 2
    /\ last.tx = UserTx(<<PositionClosed(P2, S_50, OwnerA)>>)
    /\ last.results = <<TRUE>>
    /\ ObservedLog(db, OwnerA)[2].position.position_id = P2

----------------------------------------------------------------------------
(* Properties of the unspent notes                                         *)

LastEvent == last.tx.events.items[Len(last.tx.events.items)]

\* The notes GET /private/notes/unspent returns for x-receiver-hash h.
NotesFor(d, h) == get_unspent_notes_handler(d, Headers(None, None, Some(h)))

\* C12: after NoteCreated(n, h, amount) the query for h returns the note of
\* the id derived from n, with that nonce and value; after NoteClaimed with
\* the id derived from n the unspent set holds no note of that id and no
\* query returns one.
C12_NoteLifecycle ==
    last.results # <<>> =>
        /\ \A n \in Nonces, h \in ReceiverHashes :
              LastEvent = NoteCreated(n, h, S_300) =>
                /\ last.results[Len(last.results)]
                /\ NotesFor(db, h).status = STATUS_OK
                /\ [note_id |-> format_0x_016x(n),
                    note |-> [note_nonce |-> n, receiver_hash |-> h,
                              value |-> S_300]]
                      \in NotesFor(db, h).unspent_notes
        /\ \A n \in Nonces :
              LastEvent = NoteClaimed(format_0x_016x(n)) =>
                /\ last.results[Len(last.results)]
                /\ \A r \in UnspentRecords(db) :
                      r.note.note_id # format_0x_016x(n)
                /\ \A h \in ReceiverHashes :
                      \A note \in NotesFor(db, h).unspent_notes :
                          note.note_id # format_0x_016x(n)

\* A note was created for 0xdead, returned to that receiver, and then claimed
\* while another note of the receiver stays.
C12_Witness ==
    /\ last.tx = UserTx(<<NoteClaimed(format_0x_016x(7))>>)
    /\ last.results = <<TRUE>>
    /\ Cardinality(NotesFor(db, R_dead).unspent_notes) = 1
    /\ \E note \in NotesFor(db, R_dead).unspent_notes : note.note.note_nonce = 255

\* The byte id that NoteClaimed carries for the note of a nonce.
NoteKey(n) == hex_decode(strip_prefix_0x(format_0x_016x(n))).val

\* C13: NoteClaimed for an id that is not in the unspent set is handled
\* without an error and leaves the store as it is, and NoteClaimed applied
\* twice leaves the store that one application leaves.
C13_ClaimAbsentIsNoOp ==
    /\ \A n \in Nonces \cup {UnknownNonce} :
          LET once == process_event(db, NoteClaimed(format_0x_016x(n)))
              twice == process_event(once.db, NoteClaimed(format_0x_016x(n)))
          IN /\ once.ok /\ twice.ok
             /\ twice.db = once.db
             /\ NoteKey(n) \notin UnspentIds(db) => once.db = db
    /\ \A i \in 2..Len(last.results) :
          /\ last.tx.events.items[i] = last.tx.events.items[i - 1]
          /\ Contains(last.tx.events.items[i].type.s, T_NoteClaimed)
          => last.results[i]

\* A note was claimed twice in one transaction, and both claims returned Ok,
\* while another note is unspent.
C13_Witness ==
    /\ last.tx = UserTx(<<NoteCreated(7, R_dead, S_300),
                          NoteClaimed(format_0x_016x(7)),
                          NoteClaimed(format_0x_016x(7))>>)
    /\ last.results = <<TRUE, TRUE, TRUE>>
    /\ NoteKey(7) \notin UnspentIds(db)
    /\ NoteKey(0) \in UnspentIds(db)

----------------------------------------------------------------------------
(* Properties of the poller's failure handling                             *)

\* A step in which a ledger call of the polling loop ended.
LoopCallEnds == poller.pc \in {"poll", "fetch"} /\ poller' # poller

\* C14: when a ledger call of the polling loop returns an error, the cursor
\* is left as it is, nothing is applied, the loop sleeps, and the next
\* iteration starts from the same from_version.
C14_FetchErrorKeepsCursor ==
    [][/\ (LoopCallEnds /\ poller'.answer = "err") =>
            /\ poller'.from_version = poller.from_version
            /\ poller'.pc = "sleep"
            /\ db' = db
            /\ ingest'.applied = ingest.applied
       /\ (poller.pc = "sleep" /\ poller.answer = "err" /\ poller' # poller) =>
            /\ poller'.pc = "poll"
            /\ poller'.from_version = poller.from_version
            /\ db' = db]_vars

\* After a chunk was applied, get_transactions returned an error and the loop
\* is back at its head with the cursor where it was.
C14_Witness ==
    /\ poller.call = "transactions" /\ poller.answer = "err"
    /\ poller.pc = "poll"
    /\ ingest.chunks = 1
    /\ poller.from_version = ingest.prev_to + 1
    /\ poller.to_version >= poller.from_version

\* C15: a failure of a ledger call of the polling loop (an error, or a
\* non-2xx answer, which the code sees as whatever its body parses to) does
\* not end indexer_logic, is followed by the loop's sleep, and leaves the
\* cursor as it is.
C15_UpstreamFailureNonFatal ==
    [][(LoopCallEnds /\ poller'.answer \in {"err", "other_json"}) =>
            /\ poller'.pc = "sleep"
            /\ poller'.from_version = poller.from_version]_vars

\* C16: within a run the cursor moves only in a step that has handed every
\* version it moves past to process_transaction, the last of them last.
C16_CursorMovesPastAppliedOnly ==
    [][(poller.pc = "fetch"
        /\ poller'.from_version # poller.from_version) =>
            /\ poller'.from_version = poller.to_version + 1
            /\ \A v \in poller.from_version..(poller'.from_version - 1) :
                  v \in ingest'.applied
            /\ last'.tx = LedgerTx(poller.to_version)]_vars

----------------------------------------------------------------------------
(* Properties of the /private routes                                       *)

Answered == client.pc = "answered"

\* The request carries a signature that verifies for its message under key.
SignedFor(headers, key) ==
    /\ headers.x_signature.some
    /\ headers.x_message.some
    /\ valid_signature(headers.x_signature.v, headers.x_message.v, key)

\* C17: a request to a /private route is served on behalf of an owner only if
\* x-signature is a valid signature over x-message under that owner's public
\* key, and a request whose signature is not valid for its message is
\* answered 401 without any access to the store.
C17_ServedOnlyWithValidSignature ==
    Answered =>
        /\ client.response.owner.some =>
               SignedFor(client.headers, client.response.owner.v)
        /\ ~(\E m \in 1..Len(Messages) :
                SignedFor(client.headers, MessageKey(Messages[m]))) =>
               /\ client.response.status = UNAUTHORIZED
               /\ ~client.response.store_access

LacksAuthHeader(headers) ==
    ~headers.x_signature.some \/ ~headers.x_message.some

\* C18: a GET request to /private/positions/open, /private/positions/history
\* or /private/metadata without the x-signature header or without the
\* x-message header is answered 401 with no body, and the store is neither
\* read nor written.
C18_MissingHeaderUnauthorized ==
    [][(/\ client'.pc = "answered"
        /\ client'.endpoint \in GetEndpoints
        /\ LacksAuthHeader(client'.headers))
       => /\ client'.response.status = UNAUTHORIZED
          /\ ~client'.response.store_access
          /\ ~client'.response.owner.some
          /\ client'.response.open_positions = {}
          /\ client'.response.page = EmptyPage
          /\ ~client'.response.encrypted_metadata.some
          /\ db' = db]_vars

\* A request for the open positions of the owner of M_A, who has some, without
\* x-signature, answered 401.
C18_Witness ==
    /\ Answered
    /\ client.endpoint = "GET /private/positions/open"
    /\ ~client.headers.x_signature.some
    /\ client.headers.x_message.some
    /\ client.headers.x_message.v = M_A
    /\ get_open_positions(db, MessageKey(M_A)) # {}
    /\ client.response.status = UNAUTHORIZED

MetadataOf(m) ==
    get_metadata(db, RequestHeaders("valid", m)).encrypted_metadata

\* C20: for every owner, get_metadata returns the hex encoding of the body of
\* the most recent accepted set_metadata of that owner, whole and of no other
\* owner, and nothing if that owner never wrote.
C20_MetadataLastWriteWins ==
    \A m \in 1..Len(Messages) :
        \E answer \in {MetadataOf(m)} :
            LET writes == {w \in client.accepted :
                             w.owner = MessageKey(Messages[m])}
            IN  /\ Cardinality(writes) <= 1
                /\ writes = {} => ~answer.some
                /\ \A w \in writes :
                      answer.some /\ answer.v = hex_encode(w.blob)

\* The owner of M_A has just written a body over a different earlier one, the
\* other owner holds a different blob, and get_metadata gives each their own.
C20_Witness ==
    /\ Answered
    /\ client.endpoint = "POST /private/metadata"
    /\ client.replaced
    /\ client.response.owner.v = MessageKey(M_A)
    /\ \E w \in client.accepted :
          /\ w.owner = MessageKey(M_long)
          /\ w.blob # client.body
          /\ MetadataOf(2).some
          /\ MetadataOf(2).v = hex_encode(w.blob)
    /\ MetadataOf(1).some
    /\ MetadataOf(1).v = hex_encode(client.body)

----------------------------------------------------------------------------
(* Properties of the routes that take an identifier                        *)

\* The digits of an identifier, without the prefix.
Digits(identifier) == strip_prefix_0x(identifier.v)

\* The identifier is absent, has a character that is no hex digit, has an odd
\* number of digits or, for an address, stands for more than 32 bytes.
Undecodable(endpoint, identifier) ==
    \/ ~identifier.some
    \/ \E i \in 1..Len(Digits(identifier)) :
          Digits(identifier)[i] \notin HexChars
    \/ Len(Digits(identifier)) % 2 = 1
    \/ /\ endpoint \in {"GET /positions/open/{address}",
                         "GET /positions/history/{address}"}
       /\ Len(Digits(identifier)) > 64

\* C21: a request whose identifier does not decode (a position id or a
\* receiver hash that is no hex, an address that is no hex or longer than 32
\* bytes, an absent x-receiver-hash) is answered 400 with nothing in the body,
\* and its handler makes no call on the store.
C21_UndecodableIdentifierBadRequest ==
    (client.pc = "answered" /\ Undecodable(client.endpoint, client.identifier))
        => /\ client.lookup.status = BAD_REQUEST
           /\ ~client.lookup.store_access
           /\ client.lookup.empty

\* An address of 33 bytes has been answered 400 by a by-address route while
\* the store holds positions.
C21_Witness ==
    /\ client.pc = "answered"
    /\ client.endpoint = "GET /positions/open/{address}"
    /\ client.identifier = Some(Addr33)
    /\ client.lookup.status = BAD_REQUEST
    /\ OpenRecords(db) # {}

----------------------------------------------------------------------------
(* Properties of the poller's supervisor and of its ranges                 *)

\* C22: run_indexer never returns: it is always inside indexer_logic or in
\* its restart sleep; and, the sleeps ending, every end of indexer_logic with
\* an error is followed by a new call of indexer_logic.
C22_IndexerRestartsAfterError ==
    /\ [](poller.pc \in {"start", "poll", "fetch", "sleep", "restart_sleep"})
    /\ (poller.pc = "restart_sleep") ~> (poller.pc = "start")

\* indexer_logic has been called again after the loop ended with an error.
C22_Witness ==
    /\ poller.pc = "start"
    /\ poller.restarts > 0
    /\ poller.has_cursor
    /\ poller.answer = "other_json"

\* C23: a store I/O error raised while the poller applies an event ends the
\* current cycle: indexer_logic returns the error, which takes run_indexer to
\* its restart sleep, and the cursor does not move over the chunk.
C23_StoreErrorFatalToCycle ==
    [][(ingest' # ingest /\ ingest'.io_errors # {})
       => /\ poller'.pc = "restart_sleep"
          /\ poller'.from_version = poller.from_version]_vars

\* Every event of the transaction is given to process_event, one after the
\* other, whatever the events before it returned; fails tells that the store
\* returns an I/O error meanwhile.
RECURSIVE ApplyEvents(_, _, _)
ApplyEvents(d, events, fails) ==
    IF events = <<>> THEN d
    ELSE ApplyEvents(
             [process_event([d EXCEPT !.io_error = fails], Head(events)).db
                 EXCEPT !.io_error = FALSE],
             Tail(events), fails)

\* The same over the transactions of the versions, in version order.
RECURSIVE ApplyEvery(_, _, _)
ApplyEvery(d, versions, faulty) ==
    IF versions = {} THEN d
    ELSE LET v == CHOOSE x \in versions : \A y \in versions : x <= y IN
         ApplyEvery(ApplyEvents(d, LedgerTx(v).events.items, v \in faulty),
                    versions \ {v}, faulty)

\* C24: when get_transactions has returned the chunk, the store after the
\* chunk is the store in which every event of every transaction of the chunk
\* that passes the filter has been given to its handler in order, the events
\* and transactions after a failed handler included, and the cursor is past
\* the chunk.
C24_HandlerFailureIsolated ==
    [][(poller.pc = "fetch" /\ poller'.pc = "sleep" /\ poller'.answer = "ok")
       => /\ db' = ApplyEvery(db,
                       {v \in poller.from_version..poller.to_version :
                           HasDispatchedEvents(LedgerTx(v))},
                       ingest'.io_errors)
          /\ poller'.from_version = poller.to_version + 1]_vars

\* A chunk has been applied in which the store failed on the event that opens
\* P1 at version 10: the PositionClosed of P1 at version 20 failed as well, the
\* PositionOpened of P2 behind it in the same transaction and the
\* PositionLiquidated of P2 at version 30 were applied, and so were the later
\* transactions that open and close P1, which the log shows behind P2.
C24_Witness ==
    /\ poller.pc = "sleep"
    /\ poller.from_version = poller.to_version + 1
    /\ ingest.io_errors = {10}
    /\ Len(db.historical_log) = 2
    /\ db.historical_log[1].id = position_key(P2).val
    /\ db.historical_log[1].entry.status = "Liquidated"
    /\ db.historical_log[2].id = position_key(P1).val
    /\ db.historical_log[2].entry.status = "Closed"

----------------------------------------------------------------------------
(* Properties of the handlers' reading of the payload                      *)

\* The fields a handler reads from the payload of its event type, each with
\* the JSON type it is read as.
PayloadFields(event_type) ==
    IF Contains(event_type, T_NoteCreated)
    THEN {<<"note_nonce", "num">>, <<"receiver_hash", "str">>,
          <<"amount", "str">>}
    ELSE IF Contains(event_type, T_NoteClaimed)
    THEN {<<"note_id", "str">>}
    ELSE IF Contains(event_type, T_PositionOpened)
    THEN {<<"position_id", "str">>, <<"is_long", "bool">>,
          <<"entry_price", "str">>, <<"margin", "str">>, <<"size", "str">>,
          <<"owner_hash", "str">>}
    ELSE IF Contains(event_type, T_PositionClosed)
    THEN {<<"position_id", "str">>, <<"pnl", "str">>, <<"user", "str">>}
    ELSE IF Contains(event_type, T_PositionLiquidated)
    THEN {<<"position_id", "str">>, <<"user", "str">>}
    ELSE {}

\* An event of a known type with a field absent or of the wrong type.
IsMalformed(event) ==
    \E f \in PayloadFields(as_str_or(event.type, S_empty)) :
        event.data[f[1]].k # f[2]

\* C25: a transaction made of one event of a known type whose payload lacks a
\* field or has it with the wrong type leaves the store as it was, and the
\* event's handler returns an error.
C25_MalformedPayloadSkipped ==
    [][(/\ Len(last'.tx.events.items) = 1
        /\ IsMalformed(last'.tx.events.items[1]))
       => /\ db' = db
          /\ last'.results = <<FALSE>>]_vars

----------------------------------------------------------------------------
(* Properties of the notes under the poller                                *)

\* C26: the id of a note that a NoteClaimed event has removed from the unspent
\* set is in the unspent set in no later state, the states between the chunks
\* that the poller applies again after a restart included.
C26_ClaimedNoteNeverUnspentAgain ==
    ingest.claimed \cap UnspentIds(db) = {}

-----------------------------------------------------------------------------
(* Properties of a settled position                                        *)

\* C27: an entry of the historical log stays where it is with its status, pnl
\* and closer, its status is Closed or Liquidated, and no step opens its id
\* again or appends a second entry for it: a later PositionClosed or
\* PositionLiquidated for a settled id changes nothing (first settlement wins).
C27_FirstSettlementWins ==
    [][\A i \in 1..Len(db.historical_log) :
          /\ Len(db'.historical_log) >= i
          /\ db'.historical_log[i] = db.historical_log[i]
          /\ db.historical_log[i].entry.status \in {"Closed", "Liquidated"}
          /\ db.historical_log[i].id \notin OpenIds(db')
          /\ \A j \in (Len(db.historical_log) + 1)..Len(db'.historical_log) :
                db'.historical_log[j].id # db.historical_log[i].id]_vars

\* Position 1 was closed with pnl 50 by OwnerA, and the last transaction was its
\* liquidation by OwnerB, which the store refused.
C27_Witness ==
    /\ last.tx = UserTx(<<PositionLiquidated(P1, OwnerB)>>)
    /\ last.results = <<FALSE>>
    /\ \E i \in 1..Len(db.historical_log) :
          /\ db.historical_log[i].id = <<1>>
          /\ db.historical_log[i].entry.status = "Closed"
          /\ db.historical_log[i].entry.pnl = S_50
          /\ db.historical_log[i].entry.closer = OwnerA

-----------------------------------------------------------------------------
(* Properties of the range the poller asks for                             *)

\* C28: whenever the poller is about to call get_transactions, its cursor is
\* below the head it has just read, to_version is the smaller of
\* from_version + 99 and that head, from_version <= to_version and the limit
\* of the request, to_version - from_version + 1, is at most 100; and a step
\* of the loop taken with the cursor at or above the ledger's head issues no
\* fetch and leaves the cursor where it is.
C28_FetchRangeBounded ==
    /\ [](poller.pc = "fetch"
          => /\ poller.from_version < poller.latest_version
             /\ poller.to_version = Min(poller.from_version + 99,
                                        poller.latest_version)
             /\ poller.from_version <= poller.to_version
             /\ poller.to_version - poller.from_version + 1 <= 100)
    /\ [][(poller.pc = "poll" /\ poller.from_version >= ledger.version)
          => /\ poller'.pc # "fetch"
             /\ poller'.from_version = poller.from_version]_vars

\* The second chunk of a run: the first one was a full chunk of 100 versions,
\* and this one ends at the head, fewer than 100 versions above the cursor.
C28_Witness ==
    /\ poller.pc = "fetch"
    /\ ingest.chunks = 1
    /\ ingest.prev_to = ingest.run_start + 99
    /\ poller.from_version = ingest.prev_to + 1
    /\ poller.to_version = poller.latest_version
    /\ poller.to_version < poller.from_version + 99

-----------------------------------------------------------------------------
(* Properties of the cursor at a start                                     *)

\* C29: every step that takes indexer_logic from its start into its loop sets
\* the cursor to max(head - 100, 0), head being the ledger version at that
\* step, and no version below that cursor is among those the run has handed
\* to process_transaction, nor is the cursor of a fetch of the run below it.
C29_StartCursorIsLookback ==
    /\ [][(poller.pc = "start" /\ poller'.pc = "poll")
          => /\ poller'.from_version = Max(ledger.version - 100, 0)
             /\ ingest'.run_start = poller'.from_version
             /\ ingest'.applied = {}]_vars
    /\ []((poller.pc = "fetch" => poller.from_version >= ingest.run_start)
          /\ \A v \in ingest.applied : v >= ingest.run_start)

\* A run after a restart: the first run started at version 50, this one at
\* version 51 with the head at 151, and it has applied a chunk.
C29_Witness ==
    /\ poller.restarts = 1
    /\ ingest.first_start = 50
    /\ ingest.run_start = 51
    /\ ingest.chunks >= 1
    /\ ingest.applied # {}
    /\ ledger.version = 151

-----------------------------------------------------------------------------
(* Properties of the filter of process_transaction                         *)

\* C30: the events of a transaction are handed to the dispatcher only if the
\* transaction is a user transaction whose payload function starts with the
\* module address of the configuration, and a transaction that is not such a
\* one leaves the store as it was.
C30_FilterUsesConfiguredAddress ==
    [][LET tx == last'.tx
           configured ==
               /\ as_str_or(tx.type, S_empty) = S_user_transaction
               /\ tx.function.k = "str"
               /\ starts_with(tx.function.s, poller.config.nox_module_address)
       IN /\ last'.results # <<>> => configured
          /\ ~configured => db' = db]_vars

-----------------------------------------------------------------------------
(* Properties of the routing of process_event                              *)

\* str::ends_with on token sequences.
EndsWith(s, pat) ==
    Len(s) >= Len(pat) /\ SubSeq(s, Len(s) - Len(pat) + 1, Len(s)) = pat

\* The outcome of routing by the end of the type tag: the handler of the known
\* tag the type ends with, and Ok with no effect for any other type.
RouteBySuffix(d, event) ==
    LET event_type == as_str_or(event.type, S_empty) IN
    IF EndsWith(event_type, <<"NoteCreated">>)
    THEN handle_note_created(d, event.data)
    ELSE IF EndsWith(event_type, <<"NoteClaimed">>)
    THEN handle_note_claimed(d, event.data)
    ELSE IF EndsWith(event_type, <<"PositionOpened">>)
    THEN handle_position_opened(d, event.data)
    ELSE IF EndsWith(event_type, <<"PositionClosed">>)
    THEN handle_position_closed(d, event.data)
    ELSE IF EndsWith(event_type, <<"PositionLiquidated">>)
    THEN handle_position_liquidated(d, event.data)
    ELSE Ok(d)

\* C31: a transaction of one event leaves the store and the event's result as
\* the handler of the known tag its type ends with leaves them, and an event
\* whose type ends with none of the five tags changes nothing and is Ok.
C31_RoutedBySuffix ==
    [][(Len(last'.results) = 1 /\ Len(last'.tx.events.items) = 1)
       => \E r \in {RouteBySuffix(db, last'.tx.events.items[1])} :
             /\ db' = r.db
             /\ last'.results = <<r.ok>>]_vars

-----------------------------------------------------------------------------
(* Properties of the settlement handlers                                   *)

\* The historical log and the open index after the open position with the id
\* of the event was settled with the status, pnl and closer given.
Settled(d, event, status, pnl, closer) ==
    \E r \in OpenRecords(d) :
       /\ r.id = hex_decode(strip_prefix_0x(event.data.position_id.s)).val
       /\ db'.historical_log =
             Append(d.historical_log,
                    [owner |-> r.owner, id |-> r.id,
                     entry |-> [position |-> r.position, status |-> status,
                                pnl |-> pnl, closer |-> closer]])
       /\ db'.open_index = d.open_index (-) SetToBag({r})

-----------------------------------------------------------------------------
(* Properties of the owner identifier of an opened position                *)

\* 32 bytes from decoded bytes by left-padding with zeros when they are fewer
\* and by keeping the first 32 when they are more.
LeftPadOrTruncate(bytes) ==
    [i \in 1..32 |->
        IF Len(bytes) >= 32 THEN bytes[i]
        ELSE IF i > 32 - Len(bytes) THEN bytes[i - (32 - Len(bytes))] ELSE 0]

\* C33: a PositionOpened event that its handler accepts puts the position into
\* the open index under the owner identifier obtained from the decoded
\* owner_hash by left-padding it to 32 bytes when it is shorter and by
\* truncating it to 32 bytes when it is longer.
C33_OwnerIdLeftPaddedOrTruncated ==
    [][(/\ Len(last'.tx.events.items) = 1
        /\ last'.results = <<TRUE>>
        /\ Contains(last'.tx.events.items[1].type.s, T_PositionOpened))
       => LET event_data == last'.tx.events.items[1].data IN
          \E r \in OpenRecords(db') :
             /\ r \notin OpenRecords(db)
             /\ r.position.position_id = event_data.position_id.s
             /\ r.owner = LeftPadOrTruncate(
                    hex_decode(strip_prefix_0x(event_data.owner_hash.s)).val)]_vars

-----------------------------------------------------------------------------
(* Properties of the owner key of the handler and of the by-address routes *)

\* Owner addresses of at most 32 bytes: one byte, two bytes and 32 bytes.
ShortAddresses == {OwnerA, OwnerB, <<"0", "x", "1", "1", "0", "0">>, Addr32}

\* The key the PositionOpened handler derives from an owner_hash.
HandlerKey(owner_hash) == owner_id_of(hex_decode(strip_prefix_0x(owner_hash)).val)

\* C34: for every address of at most 32 bytes the key of the by-address routes
\* is the key the PositionOpened handler derives from it; a position whose
\* PositionOpened event was accepted is in the answer of
\* GET /positions/open/{address} for the event's owner_hash, and a position
\* whose settlement was accepted is in the answer of
\* GET /positions/history/{address} for every address whose key is that of
\* the owner it was opened under.
C34_HandlerAndRoutesAgreeOnKey ==
    /\ [](\A a \in ShortAddresses :
             address_owner_id(a) = [ok |-> TRUE, val |-> HandlerKey(a)])
    /\ [][(Len(last'.tx.events.items) = 1 /\ last'.results = <<TRUE>>)
          => LET event == last'.tx.events.items[1] IN
             /\ Contains(event.type.s, T_PositionOpened)
                   => \E p \in get_open_positions_for_address(
                                   db', event.data.owner_hash.s).open_positions :
                         p.position_id = event.data.position_id.s
             /\ (Contains(event.type.s, T_PositionClosed)
                 \/ Contains(event.type.s, T_PositionLiquidated))
                   => \A r \in {o \in OpenRecords(db) : o \notin OpenRecords(db')} :
                      \A a \in {x \in ShortAddresses : HandlerKey(x) = r.owner} :
                         \E i \in 1..Len(get_historical_positions_for_address(
                                             db', a, [cursor |-> None,
                                                      page_size |-> None]).page.items) :
                            get_historical_positions_for_address(
                                db', a, [cursor |-> None, page_size |-> None]
                            ).page.items[i].position = r.position]_vars

\* Position 2, opened for the 32-byte address, has been liquidated and the
\* history route answers it for that address; position 1 is open for OwnerA.
C34_Witness ==
    /\ last.tx = UserTx(<<PositionLiquidated(P2, OwnerB)>>)
    /\ last.results = <<TRUE>>
    /\ Len(get_historical_positions_for_address(
               db, Addr32, [cursor |-> None, page_size |-> None]).page.items) = 1
    /\ get_open_positions_for_address(db, OwnerA).open_positions # {}
    /\ get_open_positions_for_address(db, Addr32).open_positions = {}

-----------------------------------------------------------------------------
(* Properties of a range answered with a body that is no array             *)

\* C35: when get_transactions returns a body that is no JSON array, the step
\* hands no transaction to process_transaction, leaves the store as it was and
\* moves the cursor to to_version + 1; and no version of such a range is among
\* the versions the run has applied.
C35_NonArrayBodySkipsRange ==
    /\ [][(/\ poller.pc = "fetch"
           /\ poller'.call = "transactions"
           /\ poller'.answer = "other_json")
          => /\ db' = db
             /\ last' = last
             /\ ingest'.applied = ingest.applied
             /\ poller'.pc = "sleep"
             /\ poller'.from_version = poller.to_version + 1
             /\ poller.from_version..poller.to_version \subseteq ingest'.skipped]_vars
    /\ [](ingest.skipped \cap ingest.applied = {})

\* The range 50..149 was answered with a body that is no array and the range
\* after it was applied: the positions of versions 60 to 130 are not in the
\* store.
C35_Witness ==
    /\ 60 \in ingest.skipped
    /\ 149 \in ingest.skipped
    /\ 151 \in ingest.applied
    /\ OpenRecords(db) = {}
    /\ db.historical_log = <<>>

-----------------------------------------------------------------------------
(* Properties of the owner check_auth derives                              *)

\* A message that shares its first 32 bytes with M_long.
M_long_other == [M_long EXCEPT ![33] = 50]

\* Pairs of messages with the same first 32 bytes, zero-filled.
SameKeyMessages ==
    {<<M_A, M_A>>, <<M_long, M_long>>, <<M_long, M_long_other>>}

\* What the /private routes answer to the headers in the store d.
PrivateAnswers(d, headers) ==
    <<get_private_open_positions(d, headers),
      get_private_historical_positions(d, headers,
          [cursor |-> None, page_size |-> None]),
      get_metadata(d, headers),
      set_metadata(d, headers, Blob(100, 18))>>

\* C36: the owner check_auth returns is made of the first 32 bytes of
\* x-message, zero-filled when it is shorter, whatever x-signature holds: a
\* request with a signature that does not verify and a request with one that
\* does get the same answer from every /private route when their messages are
\* the same or share their first 32 bytes.
C36_OwnerFromMessageOnly ==
    \A pair \in SameKeyMessages :
       \E unverified \in {Headers(Some(Garbage), Some(pair[1]), None)} :
       \E verified \in {Headers(Some(Sign(MessageKey(pair[2]), pair[2])),
                                Some(pair[2]), None)} :
          /\ check_auth(unverified).ok
          /\ check_auth(unverified).pub_key = owner_id_of(pair[1])
          /\ check_auth(verified) = check_auth(unverified)
          /\ PrivateAnswers(db, verified) = PrivateAnswers(db, unverified)

\* The owner of M_long has stored metadata with a signature that verifies, and
\* a request with M_long and a signature that does not verify has read it.
C36_Witness ==
    /\ client.pc = "answered"
    /\ client.endpoint = "GET /private/metadata"
    /\ client.headers = Headers(Some(Garbage), Some(M_long), None)
    /\ client.response.status = STATUS_OK
    /\ client.response.encrypted_metadata.some
    /\ \E w \in client.accepted : w.owner = MessageKey(M_long)

-----------------------------------------------------------------------------
(* Properties of pagination while the log grows                            *)

\* C37: while positions are settled between the page requests of a chain, the
\* items the chain has collected are the first entries of the owner's log in
\* insertion order, each once; and a chain that has ended has collected every
\* entry the log held when the chain started.
C37_AppendsKeepPagedOffsets ==
    /\ IsPrefix(chain.collected, OwnerLog(db, address_owner_id(chain.address).val))
    /\ chain.pc = "done" => IsPrefix(chain.expected, chain.collected)

\* A chain of page size 3 over a log of 3 entries has ended after an entry was
\* appended between its two requests: it has collected the 3 and the appended.
C37_Witness ==
    /\ chain.pc = "done"
    /\ chain.page_size = Some(3)
    /\ chain.requests = 2
    /\ Len(chain.expected) = 3
    /\ Len(chain.collected) = 4
    /\ SubSeq(chain.collected, 1, 3) = chain.expected
    /\ chain.collected[4].position.position_id = Q1

-----------------------------------------------------------------------------
(* Properties of next_cursor                                               *)

\* A page request of the chain is answered in this step.
PageAnswered == chain.pc = "paging" /\ chain'.requests = chain.requests + 1

\* C38 as stated: every next_cursor that is not null is greater than the
\* cursor of the request it answers, for every page size, 0 included.
C38_NextCursorAdvances ==
    [][(PageAnswered /\ chain'.cursor.some)
       => chain'.cursor.v > unwrap_or(chain.cursor, 0)]_vars

\* C38, amended: the same for every page size of at least 1 (and for the
\* default of a request that names none); with page size 0 the next_cursor of
\* every answer is the cursor of its request.
C38_NextCursorAdvancesPositivePageSize ==
    [][PageAnswered
       => /\ (unwrap_or(chain.page_size, DEFAULT_PAGE_SIZE) >= 1
              /\ chain'.cursor.some)
                => chain'.cursor.v > unwrap_or(chain.cursor, 0)
          /\ chain.page_size = Some(0)
                => chain'.cursor = Some(unwrap_or(chain.cursor, 0))]_vars

\* The second page of a chain of page size 1 was answered with next_cursor 2.
C38_Witness ==
    /\ chain.pc = "paging"
    /\ chain.page_size = Some(1)
    /\ chain.requests = 2
    /\ chain.cursor = Some(2)
    /\ Len(chain.collected) = 2

-----------------------------------------------------------------------------
(* Properties of what an event or a request leaves alone                   *)

\* The owner keys of the positions and of the metadata.
OwnerKeys ==
    {HandlerKey(OwnerA), HandlerKey(OwnerB), MessageKey(M_A), MessageKey(M_long)}

\* The open positions, the log and the metadata of the owner are the same
\* before and after the step.
OwnerUntouched(k) ==
    /\ get_open_positions(db', k) = get_open_positions(db, k)
    /\ OwnerLog(db', k) = OwnerLog(db, k)
    /\ user_metadata_get(db', k) = user_metadata_get(db, k)

\* The owner whose position the event is about: the owner of the owner_hash
\* for PositionOpened, the owner the position is open under for the others.
EventOwners(d, event) ==
    IF Contains(event.type.s, T_PositionOpened)
    THEN {HandlerKey(event.data.owner_hash.s)}
    ELSE IF event.data.position_id.k = "str"
    THEN {r.owner : r \in {o \in OpenRecords(d) :
                              o.id = hex_decode(strip_prefix_0x(
                                         event.data.position_id.s)).val}}
    ELSE {}

\* C39: a transaction of one position event leaves the open positions, the log
\* and the metadata of every owner but the position's owner as they were; a
\* POST /private/metadata leaves the positions, the log and the notes as they
\* were, and the metadata of every owner but the one its headers stand for.
C39_OtherOwnersUntouched ==
    [][/\ (client' = client /\ Len(last'.tx.events.items) = 1)
            => /\ \A k \in OwnerKeys \ EventOwners(db, last'.tx.events.items[1]) :
                     OwnerUntouched(k)
               /\ db'.user_metadata = db.user_metadata
       /\ client' # client
            => /\ db'.open_index = db.open_index
               /\ db'.historical_log = db.historical_log
               /\ db'.unspent_notes = db.unspent_notes
               /\ \A k \in OwnerKeys :
                     (~client'.response.owner.some \/ k # client'.response.owner.v)
                        => OwnerUntouched(k)]_vars

\* Metadata was stored for the owner of M_A while the store holds metadata of
\* the owner of M_long, an open position of OwnerB, a settled one of OwnerA
\* and a note.
C39_Witness ==
    /\ client.endpoint = "POST /private/metadata"
    /\ client.response.status = STATUS_OK
    /\ client.response.owner = Some(MessageKey(M_A))
    /\ client.replaced
    /\ user_metadata_get(db, MessageKey(M_long)).some
    /\ get_open_positions(db, HandlerKey(OwnerB)) # {}
    /\ Len(OwnerLog(db, HandlerKey(OwnerA))) = 1
    /\ get_open_positions(db, MessageKey(M_A)) # {}
    /\ UnspentRecords(db) # {}

-----------------------------------------------------------------------------
(* Properties of what the routes write                                     *)

\* C40: a request to any route but POST /private/metadata leaves the store as
\* it was, whatever its answer; a step that changes the store is a
\* POST /private/metadata answered 200, and the store after it is the store
\* before it with the request's body as the metadata of the owner made of the
\* request's x-message, everything else as it was.
C40_OnlyAcceptedPostWrites ==
    [][/\ client'.endpoint # "POST /private/metadata" => db' = db
       /\ db' # db
            => /\ client'.endpoint = "POST /private/metadata"
               /\ client'.response.status = STATUS_OK
               /\ client'.response.owner = Some(MessageKey(client'.headers.x_message.v))
               /\ db' = [db EXCEPT !.user_metadata =
                            {r \in @ : r.owner # client'.response.owner.v}
                            \cup {[owner |-> client'.response.owner.v,
                                   blob |-> client'.body]}]
       /\ (client'.endpoint = "POST /private/metadata"
           /\ client'.response.status # STATUS_OK) => db' = db]_vars

\* GET /private/metadata has answered the owner of M_long, who has none,
\* with 200 and no metadata, and the store holds the metadata of the owner of
\* M_A only.
C40_Witness ==
    /\ client.endpoint = "GET /private/metadata"
    /\ client.headers.x_message = Some(M_long)
    /\ client.response.status = STATUS_OK
    /\ ~client.response.encrypted_metadata.some
    /\ user_metadata_get(db, MessageKey(M_A)).some
    /\ ~user_metadata_get(db, MessageKey(M_long)).some
    /\ OpenRecords(db) # {}
    /\ UnspentRecords(db) # {}

====
